---- MODULE Spec2Model ----
(***************************************************************************)
(* A model of memory-mcp-server: the persistent store's coalesced delayed  *)
(* writes (src/src/memory/storage.js), the manager cache and graceful      *)
(* shutdown (src/src/index.js) and the long-term memory engine             *)
(* (src/unnamed/part_005, the repository's memory/long-term.js).           *)
(***************************************************************************)
EXTENDS Integers, Sequences, FiniteSets, TLC

(***************************************************************************)
(* Bounds of the model.                                                    *)
(***************************************************************************)
MaxSaves == 3
MaxFlushes == 1
MaxFailures == 1
MaxRetryCalls == 2
MaxCalls == 2
MaxTime == 2
\* The manager caches are built with maxSize 100 and maxAge 30 minutes
\* (index.js:45-47); the model scales them down so that eviction and expiry happen.
CacheMaxSize == 1
CacheMaxAge == 1
MaxLtOps == 4

(***************************************************************************)
(* Program constants.                                                      *)
(***************************************************************************)
MAX_RETRIES == 3
BACKOFF_BASE_MS == 100

\* The two JSON documents of one conversation (getShortTermPath, getLongTermPath).
Paths == {"short-term-memory.json", "long-term-memory.json"}

\* error.code values of a failed fs.writeFile: two transient ones and one that is not.
ErrorCodes == {"EBUSY", "EAGAIN", "EACCES"}

SaveIds == 1..MaxSaves

ConvIds == {"default", "conv-a"}
Kinds == {"short-term", "long-term"}
CallIds == 1..MaxCalls

\* The setInterval timers of the process: index.js:56, RateLimiter constructor,
\* AuditLogger constructor.
PeriodicTimers == {"managerSweep", "rateLimiterCleanup", "auditFlush"}

VARIABLES
  writeCache,   \* storage.js writeCache: path -> the entry object it holds (0: no key)
  entry,        \* the entry objects { data, dirty, timer }, named by the save that made them
  timer,        \* the setTimeout handles of saveJsonFile, named by the save that armed them
  writes,       \* the invocations of saveJsonFileWithRetry, in flight and finished
  file,         \* path -> the data last written to the file (0: nothing written)
  nextSave,     \* the number of the next saveJsonFile call; a call's data is its number
  lastSave,     \* path -> the number of the most recent saveJsonFile call for it
  saveResult,   \* save -> how the promise saveJsonFile returned has settled
  failures,     \* the number of write attempts that have failed
  flushActive,  \* flushAllWrites is awaiting Promise.all(flushPromises)
  flushCount,   \* the number of flushAllWrites calls made
  flushSnap,    \* path -> its latest save, if resolved, when flushAllWrites was last called
  flushDone,    \* the number of flushAllWrites calls that have returned
  now,          \* Date.now(), in ticks
  managers,     \* kind -> the LRUCache shortTermManagers / longTermManagers
  storageManagers, \* the LRUCache storageManagers
  calls,        \* the call_tool requests: position, conversation id, manager in hand
  nextInstance, \* the number of the next object made by new ...Manager()
  removed,      \* the (kind, id) keys an LRUCache has dropped (expired, evicted, cleared)
  shutdownPc,   \* the position of gracefulShutdown
  intervals,    \* periodic timer -> it is armed
  memories,     \* LongTermMemoryManager.memories
  ltCalls,      \* the addMemory / updateMemory calls awaiting testTrigger
  ltOps,        \* the number of long-term calls that have returned
  lastOp,       \* the long-term call that returned last, with its result
  evalCall,     \* an evaluateTrigger call: position, arguments, outcome
  search,       \* a searchAndActivateMemories call: position, cursor, lists
  stMemories,   \* ShortTermMemoryManager.memories
  stOps,        \* the number of short-term calls that have returned
  stLast,       \* the short-term call that returned last, with its result
  lastCleanupTime, \* ShortTermMemoryManager.lastCleanupTime
  stFile,       \* what saveShortTermMemories last handed to saveJsonFile
  optimized,    \* a deduplicateKeywords call: its argument and its result
  extraction,   \* an extractMessageKeywords call: its arguments and its result
  lru,          \* an LRUCache of its own, its clock and the call made last on it
  matched,      \* a matchKeys call: its arguments and its result
  durable,      \* the short-term managers of the tool calls and what their saves held
  limiter       \* the RateLimiter, its clock and the call made last on it

storageVars == <<writeCache, entry, timer, writes, file, nextSave, lastSave,
                 saveResult, failures, flushActive, flushCount, flushSnap, flushDone>>

managerVars == <<now, managers, storageManagers, calls, nextInstance, removed>>
shutdownVars == <<shutdownPc, intervals>>

ltVars == <<memories, ltCalls, ltOps, lastOp>>
stVars == <<stMemories, stOps, stLast, lastCleanupTime, stFile, optimized>>
utilVars == <<extraction, lru, matched, durable, limiter>>
engineVars == <<evalCall, search, stVars, utilVars>>

vars == <<storageVars, managerVars, shutdownVars, ltVars, engineVars>>

(***************************************************************************)
(* storage.js: the write buffer.                                           *)
(***************************************************************************)
NoEntry == [path |-> "", data |-> 0, dirty |-> FALSE, timer |-> 0]
NoTimer == [state |-> "none", entry |-> 0, path |-> ""]

\* clearTimeout(handle): cancels an armed timer; no effect on a fired one or on null.
ClearTimeout(tm, h) ==
  IF h # 0 /\ tm[h].state = "armed" THEN [tm EXCEPT ![h].state = "off"] ELSE tm

\* A call saveJsonFileWithRetry(filePath, data) entering its first attempt.
NewWrite(kind, ref, p, d) ==
  [kind |-> kind, ref |-> ref, path |-> p, data |-> d, retryCount |-> 0,
   phase |-> "writing", waits |-> <<>>, err |-> "none"]

InFlight(w) == w.phase \in {"writing", "backoff"}
Finished(w) == w.phase \in {"ok", "thrown"}

Pow2(n) == IF n = 0 THEN 1 ELSE IF n = 1 THEN 2 ELSE IF n = 2 THEN 4 ELSE 8

\* const delay = Math.pow(2, retryCount) * 100
BackoffDelay(retryCount) == Pow2(retryCount) * BACKOFF_BASE_MS

ShouldRetryOffByOne(retryCount, code) ==
  retryCount <= MAX_RETRIES /\ code \in {"EBUSY", "EAGAIN"}

\* The catch block's condition for another attempt.
ShouldRetry(retryCount, code) ==
  retryCount < MAX_RETRIES /\ code \in {"EBUSY", "EAGAIN"}

StorageInit ==
  /\ writeCache = [p \in Paths |-> 0]
  /\ entry = [n \in SaveIds |-> NoEntry]
  /\ timer = [n \in SaveIds |-> NoTimer]
  /\ writes = {}
  /\ file = [p \in Paths |-> 0]
  /\ nextSave = 1
  /\ lastSave = [p \in Paths |-> 0]
  /\ saveResult = [n \in SaveIds |-> "none"]
  /\ failures = 0
  /\ flushActive = FALSE
  /\ flushCount = 0
  /\ flushSnap = [p \in Paths |-> 0]
  /\ flushDone = 0

\* saveJsonFile(filePath, data, false): buffer the data and (re)arm the timer.
SaveDelayed(p) ==
  /\ nextSave <= MaxSaves
  /\ LET n == nextSave
         cached == writeCache[p]
         e == IF cached # 0 THEN cached ELSE n
         old == IF cached # 0 THEN entry[cached].timer ELSE 0
     IN /\ writeCache' = [writeCache EXCEPT ![p] = e]
        /\ entry' = [entry EXCEPT ![e] =
                       [path |-> p, data |-> n, dirty |-> TRUE, timer |-> n]]
        /\ timer' = [ClearTimeout(timer, old) EXCEPT ![n] =
                       [state |-> "armed", entry |-> e, path |-> p]]
        /\ saveResult' = [saveResult EXCEPT ![n] = "resolved"]
        /\ lastSave' = [lastSave EXCEPT ![p] = n]
        /\ nextSave' = n + 1
  /\ UNCHANGED <<writes, file, failures, flushActive, flushCount, flushSnap, flushDone>>

\* saveJsonFile(filePath, data, true): drop the buffered entry and write at once.
SaveImmediate(p) ==
  /\ nextSave <= MaxSaves
  /\ LET n == nextSave
         cached == writeCache[p]
         old == IF cached # 0 THEN entry[cached].timer ELSE 0
     IN /\ timer' = ClearTimeout(timer, old)
        /\ writeCache' = [writeCache EXCEPT ![p] = 0]
        /\ writes' = writes \cup {NewWrite("immediate", n, p, n)}
        /\ saveResult' = [saveResult EXCEPT ![n] = "pending"]
        /\ lastSave' = [lastSave EXCEPT ![p] = n]
        /\ nextSave' = n + 1
  /\ UNCHANGED <<entry, file, failures, flushActive, flushCount, flushSnap, flushDone>>

\* The timer callback up to its await: write the entry's data if it is dirty,
\* else only delete the path's key.
TimerFire(t) ==
  /\ timer[t].state = "armed"
  /\ LET e == timer[t].entry
         p == timer[t].path
     IN IF entry[e].dirty
        THEN /\ timer' = [timer EXCEPT ![t].state = "running"]
             /\ writes' = writes \cup {NewWrite("timer", t, p, entry[e].data)}
             /\ UNCHANGED writeCache
        ELSE /\ timer' = [timer EXCEPT ![t].state = "off"]
             /\ writeCache' = [writeCache EXCEPT ![p] = 0]
             /\ UNCHANGED writes
  /\ UNCHANGED <<entry, file, nextSave, lastSave, saveResult, failures,
                 flushActive, flushCount, flushSnap, flushDone>>

\* The flush writes still awaited by Promise.all, other than w.
FlushPending(ws, w) ==
  {x \in ws \ {w} : x.kind = "flush" /\ x.ref = flushCount /\ InFlight(x)}

\* What runs when the promise of write w settles: the rest of the timer callback,
\* the promise of an immediate saveJsonFile, or flushAllWrites after Promise.all.
\* ws is the set of writes with w already settled as w2.
Settle(w, w2, ws) ==
  /\ writes' = ws
  /\ CASE w.kind = "timer" ->
            /\ entry' = IF w2.phase = "ok"
                        THEN [entry EXCEPT ![timer[w.ref].entry].dirty = FALSE]
                        ELSE entry
            /\ writeCache' = [writeCache EXCEPT ![w.path] = 0]
            /\ timer' = [timer EXCEPT ![w.ref].state = "off"]
            /\ UNCHANGED <<saveResult, flushActive, flushDone>>
       [] w.kind = "immediate" ->
            /\ saveResult' = [saveResult EXCEPT ![w.ref] =
                                IF w2.phase = "ok" THEN "resolved" ELSE "rejected"]
            /\ UNCHANGED <<entry, writeCache, timer, flushActive, flushDone>>
       [] w.kind = "flush" ->
            /\ IF FlushPending(ws, w2) = {}
               THEN /\ writeCache' = [p \in Paths |-> 0]
                    /\ flushActive' = FALSE
                    /\ flushDone' = flushDone + 1
               ELSE UNCHANGED <<writeCache, flushActive, flushDone>>
            /\ UNCHANGED <<entry, timer, saveResult>>

\* fs.writeFile succeeds.
WriteSucceed(w) ==
  /\ w \in writes /\ w.phase = "writing"
  /\ file' = [file EXCEPT ![w.path] = w.data]
  /\ Settle(w, [w EXCEPT !.phase = "ok"], writes \ {w})
  /\ UNCHANGED <<nextSave, lastSave, failures, flushCount, flushSnap>>

\* fs.writeFile (or ensureDir) fails with error.code = code: back off and retry,
\* or log and throw.
WriteFail(w, code) ==
  /\ w \in writes /\ w.phase = "writing"
  /\ failures' = failures + 1
  /\ IF ShouldRetry(w.retryCount, code)
     THEN /\ writes' = (writes \ {w}) \cup
                 {[w EXCEPT !.phase = "backoff", !.err = code,
                            !.waits = Append(w.waits, BackoffDelay(w.retryCount))]}
          /\ UNCHANGED <<entry, writeCache, timer, saveResult, flushActive, flushDone>>
     ELSE LET w2 == [w EXCEPT !.phase = "thrown", !.err = code]
          IN Settle(w, w2, (writes \ {w}) \cup {w2})
  /\ UNCHANGED <<file, nextSave, lastSave, flushCount, flushSnap>>

\* The backoff setTimeout resolves: saveJsonFileWithRetry(filePath, data, retryCount + 1).
BackoffElapsed(w) ==
  /\ w \in writes /\ w.phase = "backoff"
  /\ writes' = (writes \ {w}) \cup
        {[w EXCEPT !.phase = "writing", !.retryCount = w.retryCount + 1]}
  /\ UNCHANGED <<writeCache, entry, timer, file, nextSave, lastSave, saveResult,
                 failures, flushActive, flushCount, flushSnap, flushDone>>

\* The timers flushAllWrites clears: the timer of every entry in the Map.
RECURSIVE ClearAll(_, _)
ClearAll(tm, ps) ==
  IF ps = {} THEN tm
  ELSE LET p == CHOOSE q \in ps : TRUE
       IN ClearAll(IF writeCache[p] # 0
                   THEN ClearTimeout(tm, entry[writeCache[p]].timer)
                   ELSE tm, ps \ {p})

\* The writes flushAllWrites starts: one for every dirty entry in the Map.
FlushWrites(k) ==
  {NewWrite("flush", k, p, entry[writeCache[p]].data) :
     p \in {q \in Paths : writeCache[q] # 0 /\ entry[writeCache[q]].dirty}}

\* flushAllWrites(): up to the await, and past it when there is nothing to await.
FlushStart ==
  /\ ~flushActive
  /\ flushCount < MaxFlushes
  /\ flushCount' = flushCount + 1
  /\ flushSnap' = [p \in Paths |->
                     IF lastSave[p] # 0 /\ saveResult[lastSave[p]] = "resolved"
                     THEN lastSave[p] ELSE 0]
  /\ timer' = ClearAll(timer, Paths)
  /\ writes' = writes \cup FlushWrites(flushCount + 1)
  /\ IF FlushWrites(flushCount + 1) = {}
     THEN /\ writeCache' = [p \in Paths |-> 0]
          /\ flushDone' = flushDone + 1
          /\ UNCHANGED flushActive
     ELSE /\ flushActive' = TRUE
          /\ UNCHANGED <<writeCache, flushDone>>
  /\ UNCHANGED <<entry, file, nextSave, lastSave, saveResult, failures>>

\* The steps of the saveJsonFileWithRetry invocations, with at most maxFail
\* failing attempts in a run.
WriteStep(maxFail) ==
  \E w \in writes :
     \/ WriteSucceed(w)
     \/ failures < maxFail /\ \E code \in ErrorCodes : WriteFail(w, code)
     \/ BackoffElapsed(w)

\* flushAllWrites called on its own.
FlushAllWrites == FlushStart /\ UNCHANGED <<managerVars, shutdownVars, ltVars, engineVars>>

NextDelayed ==
  \/ (\E p \in Paths : SaveDelayed(p)) /\ UNCHANGED <<managerVars, shutdownVars, ltVars, engineVars>>
  \/ (\E t \in SaveIds : TimerFire(t)) /\ UNCHANGED <<managerVars, shutdownVars, ltVars, engineVars>>
  \/ WriteStep(MaxFailures) /\ UNCHANGED <<managerVars, shutdownVars, ltVars, engineVars>>

NextFlush ==
  \/ (\E p \in Paths : SaveDelayed(p)) /\ UNCHANGED <<managerVars, shutdownVars, ltVars, engineVars>>
  \/ (\E t \in SaveIds : TimerFire(t)) /\ UNCHANGED <<managerVars, shutdownVars, ltVars, engineVars>>
  \/ WriteStep(MaxFailures) /\ UNCHANGED <<managerVars, shutdownVars, ltVars, engineVars>>
  \/ FlushAllWrites

NextStorage ==
  \/ (\E p \in Paths : SaveDelayed(p)) /\ UNCHANGED <<managerVars, shutdownVars, ltVars, engineVars>>
  \/ (\E p \in Paths : SaveImmediate(p)) /\ UNCHANGED <<managerVars, shutdownVars, ltVars, engineVars>>
  \/ (\E t \in SaveIds : TimerFire(t)) /\ UNCHANGED <<managerVars, shutdownVars, ltVars, engineVars>>
  \/ WriteStep(MaxFailures) /\ UNCHANGED <<managerVars, shutdownVars, ltVars, engineVars>>
  \/ FlushAllWrites

\* saveJsonFileWithRetry alone: writes started at once, each attempt free to fail.
NextRetry ==
  \/ /\ nextSave <= MaxRetryCalls
     /\ \E p \in Paths : SaveImmediate(p)
     /\ UNCHANGED <<managerVars, shutdownVars, ltVars, engineVars>>
  \/ WriteStep((MAX_RETRIES + 1) * MaxSaves) /\ UNCHANGED <<managerVars, shutdownVars, ltVars, engineVars>>

(***************************************************************************)
(* utils/lru-cache.js: LRUCache. A cache is the sequence of its entries    *)
(* [key, value, time] in the insertion order of its two Maps.              *)
(***************************************************************************)
Undefined == 0

LRUKeys(c) == {c[i].key : i \in 1..Len(c)}

LRUIndex(c, k) == CHOOSE i \in 1..Len(c) : c[i].key = k

\* delete(key)
LRUDelete(c, k) == SelectSeq(c, LAMBDA e : e.key # k)

\* get(key): undefined for a missing or idle-expired key (which it deletes), else
\* the value, with the access time refreshed.
LRUGet(c, k, t, maxAge) ==
  IF k \notin LRUKeys(c) THEN [cache |-> c, value |-> Undefined]
  ELSE LET i == LRUIndex(c, k)
       IN IF t - c[i].time > maxAge
          THEN [cache |-> LRUDelete(c, k), value |-> Undefined]
          ELSE [cache |-> [c EXCEPT ![i].time = t], value |-> c[i].value]

\* evictOldest(): delete the first key, in Map order, with the least access time.
LRUEvictOldest(c) ==
  IF c = <<>> THEN c
  ELSE LET i == CHOOSE j \in 1..Len(c) :
                  /\ \A m \in 1..Len(c) : c[j].time <= c[m].time
                  /\ \A m \in 1..(j - 1) : c[m].time > c[j].time
       IN LRUDelete(c, c[i].key)

\* set(key, value) with the eviction only when the cache is over maxSize.
LRUSetLate(c, k, v, t, maxSize) ==
  IF k \in LRUKeys(c)
  THEN [c EXCEPT ![LRUIndex(c, k)] = [key |-> k, value |-> v, time |-> t]]
  ELSE Append(IF Len(c) > maxSize THEN LRUEvictOldest(c) ELSE c,
              [key |-> k, value |-> v, time |-> t])

\* set(key, value)
LRUSet(c, k, v, t, maxSize) ==
  IF k \in LRUKeys(c)
  THEN [c EXCEPT ![LRUIndex(c, k)] = [key |-> k, value |-> v, time |-> t]]
  ELSE Append(IF Len(c) >= maxSize THEN LRUEvictOldest(c) ELSE c,
              [key |-> k, value |-> v, time |-> t])

\* cleanExpired() deleting the entries idle for maxAge or more.
LRUCleanExpiredEarly(c, t, maxAge) == SelectSeq(c, LAMBDA e : ~(t - e.time >= maxAge))

\* cleanExpired()
LRUCleanExpired(c, t, maxAge) == SelectSeq(c, LAMBDA e : ~(t - e.time > maxAge))

(***************************************************************************)
(* index.js: the manager caches and the call_tool handler.                 *)
(***************************************************************************)
NoCall == [pc |-> "idle", id |-> "", kind |-> "", manager |-> Undefined]

\* createServer() has loaded the managers of conversation 'default'
\* (index.js:147-150): objects 1 and 3 are its engines, object 2 its StorageManager.
ManagerInit ==
  /\ now = 0
  /\ managers =
       [k \in Kinds |->
          <<[key |-> "default", value |-> IF k = "short-term" THEN 1 ELSE 3, time |-> 0]>>]
  /\ storageManagers = <<[key |-> "default", value |-> 2, time |-> 0]>>
  /\ calls = [c \in CallIds |-> NoCall]
  /\ nextInstance = 4
  /\ removed = {}

\* getStorageManager(conversationId) on cache sm; a new StorageManager is object obj.
GetStorageManager(sm, id, obj) ==
  LET r == LRUGet(sm, id, now, CacheMaxAge)
  IN IF r.value # Undefined THEN [cache |-> r.cache, made |-> 0]
     ELSE [cache |-> LRUSet(r.cache, id, obj, now, CacheMaxSize), made |-> 1]

\* The keys of kind k that cache c has lost on the way to d.
Dropped(k, c, d) == {<<k, id>> : id \in LRUKeys(c) \ LRUKeys(d)}

\* A call_tool request for conversation id reaches getShortTermManager /
\* getLongTermManager: a cached manager is used at once; on a miss a new manager
\* is made and the call awaits the load from the store.
CallStart(c, id, k) ==
  /\ calls[c].pc = "idle"
  /\ LET r == LRUGet(managers[k], id, now, CacheMaxAge)
         hit == r.value # Undefined
         obj == IF hit THEN r.value ELSE nextInstance
         g == GetStorageManager(storageManagers, id, nextInstance + (IF hit THEN 0 ELSE 1))
     IN /\ managers' = [managers EXCEPT ![k] = r.cache]
        /\ storageManagers' = g.cache
        /\ calls' = [calls EXCEPT ![c] =
                       [pc |-> IF hit THEN "using" ELSE "loading",
                        id |-> id, kind |-> k, manager |-> obj]]
        /\ nextInstance' = nextInstance + (IF hit THEN 0 ELSE 1) + g.made
        /\ removed' = removed \cup Dropped(k, managers[k], r.cache)
                              \cup Dropped("storage", storageManagers, g.cache)
  /\ UNCHANGED now

\* The load has completed: manager.loadMemories(memories); cache.set(id, manager).
\* The call_tool handler then calls getStorageManager and runs the tool.
CallLoaded(c) ==
  /\ calls[c].pc = "loading"
  /\ LET k == calls[c].kind
         id == calls[c].id
         m == LRUSet(managers[k], id, calls[c].manager, now, CacheMaxSize)
         g == GetStorageManager(storageManagers, id, nextInstance)
     IN /\ managers' = [managers EXCEPT ![k] = m]
        /\ storageManagers' = g.cache
        /\ nextInstance' = nextInstance + g.made
        /\ removed' = removed \cup Dropped(k, managers[k], m)
                              \cup Dropped("storage", storageManagers, g.cache)
  /\ calls' = [calls EXCEPT ![c].pc = "using"]
  /\ UNCHANGED now

\* The tool handler returns.
CallDone(c) ==
  /\ calls[c].pc = "using"
  /\ calls' = [calls EXCEPT ![c].pc = "done"]
  /\ UNCHANGED <<now, managers, storageManagers, nextInstance, removed>>

\* Time passes.
Tick ==
  /\ now < MaxTime
  /\ now' = now + 1
  /\ UNCHANGED <<managers, storageManagers, calls, nextInstance, removed>>

\* The setInterval callback of index.js:56: cleanExpired() on the three caches.
SweepTick ==
  /\ intervals["managerSweep"]
  /\ managers' = [k \in Kinds |-> LRUCleanExpired(managers[k], now, CacheMaxAge)]
  /\ storageManagers' = LRUCleanExpired(storageManagers, now, CacheMaxAge)
  /\ removed' = removed
        \cup UNION {Dropped(k, managers[k], managers'[k]) : k \in Kinds}
        \cup Dropped("storage", storageManagers, storageManagers')
  /\ UNCHANGED <<now, calls, nextInstance>>

NextManagers ==
  \/ (\E c \in CallIds, id \in ConvIds, k \in Kinds : CallStart(c, id, k))
        /\ UNCHANGED <<storageVars, shutdownVars, ltVars, engineVars>>
  \/ (\E c \in CallIds : CallLoaded(c)) /\ UNCHANGED <<storageVars, shutdownVars, ltVars, engineVars>>
  \/ (\E c \in CallIds : CallDone(c)) /\ UNCHANGED <<storageVars, shutdownVars, ltVars, engineVars>>
  \/ Tick /\ UNCHANGED <<storageVars, shutdownVars, ltVars, engineVars>>
  \/ SweepTick /\ UNCHANGED <<storageVars, shutdownVars, ltVars, engineVars>>

(***************************************************************************)
(* index.js: gracefulShutdown.                                             *)
(***************************************************************************)
ShutdownInit ==
  /\ shutdownPc = "running"
  /\ intervals = [i \in PeriodicTimers |-> TRUE]

Alive == shutdownPc # "exited"

\* A signal arrives: gracefulShutdown runs up to `await flushAllWrites()`.
ShutdownStart ==
  /\ shutdownPc = "running"
  /\ FlushStart
  /\ shutdownPc' = "flushing"
  /\ UNCHANGED <<intervals, managerVars, ltVars, engineVars>>

\* flushAllWrites has returned: globalAuditLogger.stop() clears its interval and
\* awaits flush().
ShutdownStopAudit ==
  /\ shutdownPc = "flushing"
  /\ ~flushActive
  /\ intervals' = [intervals EXCEPT !["auditFlush"] = FALSE]
  /\ shutdownPc' = "auditFlush"
  /\ UNCHANGED <<storageVars, managerVars, ltVars, engineVars>>

\* globalRateLimiter.stop(), the caches are cleared, process.exit(0).
ShutdownExit ==
  /\ shutdownPc = "auditFlush"
  /\ intervals' = [intervals EXCEPT !["rateLimiterCleanup"] = FALSE]
  /\ managers' = [k \in Kinds |-> <<>>]
  /\ storageManagers' = <<>>
  /\ removed' = removed
        \cup UNION {Dropped(k, managers[k], <<>>) : k \in Kinds}
        \cup Dropped("storage", storageManagers, <<>>)
  /\ shutdownPc' = "exited"
  /\ UNCHANGED <<storageVars, now, calls, nextInstance, ltVars, engineVars>>

\* The server until it exits: tool calls save, timers fire, writes proceed, and a
\* signal starts gracefulShutdown. Nothing runs after process.exit.
NextShutdown ==
  \/ Alive /\ (\E p \in Paths : SaveDelayed(p)) /\ UNCHANGED <<managerVars, shutdownVars, ltVars, engineVars>>
  \/ Alive /\ (\E t \in SaveIds : TimerFire(t)) /\ UNCHANGED <<managerVars, shutdownVars, ltVars, engineVars>>
  \/ Alive /\ WriteStep(MaxFailures) /\ UNCHANGED <<managerVars, shutdownVars, ltVars, engineVars>>
  \/ ShutdownStart
  \/ ShutdownStopAudit
  \/ ShutdownExit

(***************************************************************************)
(* triggers/matcher.js: the trigger sandbox.                               *)
(***************************************************************************)
\* The trigger scripts of the model are the empty script, "true" and "false",
\* which run to a value, and "while(true){}", which never returns.
\* Values that are not strings stand for themselves.
Undef == "<undefined>"
NotAString == "<number 42>"

MatchScript == "match_keys(context.messages, ['k'])"
LiveThrowScript == "context.conversation_id !== 'test' && nosuch()"
LiveLoopScript == "context.conversation_id !== 'test' && (() => { for (;;) {} })()"
PromiseScript == "(async () => false)()"
AsyncLoopScript == "(async () => { await 0; for (;;) {} })()"
AsyncLoopLiveScript ==
  "(async () => { await 0; if (context.conversation_id !== 'test') for (;;) {} })()"

\* The context of an evaluation, as far as the scripts look at it: its
\* conversation_id and the number match_keys counts in its messages.
EvalContexts == [conversation_id : {"test", "c1", "c2"}, hits : {0, 1}]

\* testTrigger's mockContext, whose match_keys returns 0.
MockContext == [conversation_id |-> "test", hits |-> 0]

\* vm.run(code) in a VM made with { timeout, allowAsync: true }: the script's
\* value, or what it throws (at compile time, at run time, on the timeout). The
\* timeout covers the synchronous run only: an async function returns a promise,
\* and what it does after its first await runs as a microtask of the host, with
\* no timeout; `loops` says that this microtask never ends.
VmRun(code, ctx) ==
  LET Value(v) == [kind |-> "value", value |-> v, loops |-> FALSE]
      Throw(k) == [kind |-> k, value |-> "null", loops |-> FALSE]
  IN CASE code = "true" -> Value("true")
       [] code = "false" -> Value("false")
       [] code = "" -> Value("undefined")
       [] code = "while(true){}" -> Throw("timeout")
       [] code = "if (" -> Throw("compile")
       [] code = "nosuch()" -> Throw("throws")
       [] code = MatchScript -> Value(IF ctx.hits > 0 THEN "1" ELSE "0")
       [] code = LiveThrowScript ->
            IF ctx.conversation_id = "test" THEN Value("false") ELSE Throw("throws")
       [] code = LiveLoopScript ->
            IF ctx.conversation_id = "test" THEN Value("false") ELSE Throw("timeout")
       [] code = PromiseScript -> Value("promise")
       [] code = AsyncLoopScript -> [kind |-> "value", value |-> "promise", loops |-> TRUE]
       [] code = AsyncLoopLiveScript ->
            [kind |-> "value", value |-> "promise",
             loops |-> ctx.conversation_id # "test"]

\* executeSandboxed(code, context): { result, error }, every throw caught.
ExecuteSandboxed(code, ctx) ==
  LET r == VmRun(code, ctx)
  IN IF r.kind = "value"
     THEN [result |-> r.value, error |-> "null", loops |-> r.loops]
     ELSE [result |-> "null", error |-> r.kind, loops |-> FALSE]

\* executeSandboxed(code, context).error: vm.run throws on the timeout; the empty
\* script runs to undefined.
SandboxError(code) == ExecuteSandboxed(code, MockContext).error # "null"

\* testTrigger(triggerCode).valid
TestTrigger(code) == ~SandboxError(code)

\* Boolean(v)
ToBoolean(v) == v \notin {"false", "0", "undefined", "null", ""}

\* JavaScript truthiness of an optional string.
Truthy(x) == x # Undef /\ x # ""

\* evaluateTrigger(triggerCode, executionContext): it returns a boolean, unless
\* the script's microtask, which runs before evaluateTrigger resumes from
\* `await executeSandboxed(...)`, never ends.
EvaluateTrigger(code, ctx) ==
  IF ~Truthy(code) \/ code = NotAString
  THEN [status |-> "returned", value |-> FALSE]
  ELSE LET e == ExecuteSandboxed(code, ctx)
       IN IF e.loops THEN [status |-> "blocked", value |-> FALSE]
          ELSE IF e.error # "null" THEN [status |-> "returned", value |-> FALSE]
          ELSE [status |-> "returned", value |-> ToBoolean(e.result)]

\* The trigger codes given to evaluateTrigger in the model.
EvalCodes ==
  {Undef, NotAString, "", "true", "false", "while(true){}", "if (", "nosuch()",
   MatchScript, LiveThrowScript, LiveLoopScript, PromiseScript, AsyncLoopScript, AsyncLoopLiveScript}

NoEval == [pc |-> "idle", code |-> Undef, ctx |-> MockContext,
           outcome |-> [status |-> "none", value |-> FALSE]]

\* evaluateTrigger is called.
EvalCall(code, ctx) ==
  /\ evalCall.pc \in {"idle", "settled"}
  /\ evalCall.outcome.status # "blocked"
  /\ evalCall' = [pc |-> "called", code |-> code, ctx |-> ctx,
                  outcome |-> [status |-> "none", value |-> FALSE]]
  /\ UNCHANGED <<search, stVars, utilVars>>

\* The microtasks of the call have run.
EvalSettle ==
  /\ evalCall.pc = "called"
  /\ evalCall' = [evalCall EXCEPT !.pc = "settled",
                                  !.outcome = EvaluateTrigger(evalCall.code, evalCall.ctx)]
  /\ UNCHANGED <<search, stVars, utilVars>>

NextEvaluate ==
  \/ (\E code \in EvalCodes, ctx \in EvalContexts : EvalCall(code, ctx))
        /\ UNCHANGED <<storageVars, managerVars, shutdownVars, ltVars>>
  \/ EvalSettle /\ UNCHANGED <<storageVars, managerVars, shutdownVars, ltVars>>

(***************************************************************************)
(* memory/long-term.js: LongTermMemoryManager.                             *)
(***************************************************************************)
NoDate == -1
None == <<>>
Some(x) == <<x>>

LtSlots == {"A", "B"}
LtNames == {"", "alpha", "beta"}
RawImage == <<[type |-> "image", uri |-> "u1", raw |-> TRUE]>>

\* The arguments of the addMemory calls of the model, besides the name: two
\* complete ones that differ in every field, one whose trigger never returns, and
\* two with a required field empty.
AddPayloads ==
  { [prompt |-> "p1", trigger |-> "true", context |-> Undef, modalities |-> None],
    [prompt |-> "p2", trigger |-> "false", context |-> "ctx", modalities |-> Some(RawImage)],
    [prompt |-> "p1", trigger |-> "while(true){}", context |-> Undef, modalities |-> None],
    [prompt |-> "", trigger |-> "true", context |-> Undef, modalities |-> None],
    [prompt |-> "p1", trigger |-> "", context |-> Undef, modalities |-> None] }

\* The `updates` of the updateMemory calls of the model: with no trigger, with the
\* empty trigger, with a trigger that runs and with one that never returns.
UpdatePayloads ==
  { [prompt |-> "p2", trigger |-> Undef, context |-> Undef, modalities |-> None],
    [prompt |-> Undef, trigger |-> "", context |-> "uctx", modalities |-> None],
    [prompt |-> Undef, trigger |-> "false", context |-> Undef, modalities |-> Some(RawImage)],
    [prompt |-> "", trigger |-> "while(true){}", context |-> Undef, modalities |-> None] }

\* memory/modalities.js normalizeModalities: typed, value-copied records.
NormalizeModalities(raw) ==
  [i \in 1..Len(raw) |-> [type |-> raw[i].type, uri |-> raw[i].uri]]

\* normalizeModalities(x.modalities ?? x.attachments ?? [])
ModalitiesOf(opt) == NormalizeModalities(IF opt = None THEN <<>> ELSE opt[1])

NoLtCall ==
  [pc |-> "idle", op |-> "", name |-> "", prompt |-> Undef, trigger |-> Undef,
   context |-> Undef, modalities |-> None, index |-> 0]

NoOp ==
  [op |-> "", name |-> "", result |-> "", validated |-> FALSE, stored |-> Undef,
   replaced |-> "none"]

LongTermInit ==
  /\ memories = <<>>
  /\ ltCalls = [s \in LtSlots |-> NoLtCall]
  /\ ltOps = 0
  /\ lastOp = NoOp

FindIndexOrFirst(mems, name) ==
  IF \E i \in 1..Len(mems) : mems[i].name = name
  THEN CHOOSE i \in 1..Len(mems) :
         mems[i].name = name /\ \A j \in 1..(i - 1) : mems[j].name # name
  ELSE IF Len(mems) > 0 THEN 1 ELSE 0

\* this.memories.findIndex(mem => mem.name === name), counted from 1; 0: not found.
FindIndex(mems, name) ==
  IF \E i \in 1..Len(mems) : mems[i].name = name
  THEN CHOOSE i \in 1..Len(mems) :
         mems[i].name = name /\ \A j \in 1..(i - 1) : mems[j].name # name
  ELSE 0

\* this.memories.splice(i, 1)
RemoveAt(mems, i) == [j \in 1..(Len(mems) - 1) |-> IF j < i THEN mems[j] ELSE mems[j + 1]]

\* The record addMemory pushes.
NewMemory(a, t) ==
  [name |-> a.name, prompt |-> a.prompt, trigger |-> a.trigger, createdAt |-> t,
   updatedAt |-> NoDate,
   createdContext |-> IF Truthy(a.context) THEN a.context ELSE "",
   updatedContext |-> Undef, modalities |-> ModalitiesOf(a.modalities)]

UpsertKeepOld(mems, rec) == Append(mems, rec)

UpsertMerge(mems, rec) ==
  LET i == FindIndex(mems, rec.name)
  IN IF i = 0 THEN Append(mems, rec)
     ELSE Append(RemoveAt(mems, i),
                 [rec EXCEPT !.updatedAt = mems[i].updatedAt,
                             !.updatedContext = mems[i].updatedContext])

\* addMemory after validation: delete the record of the same name, push the new one.
Upsert(mems, rec) ==
  LET i == FindIndex(mems, rec.name)
  IN Append(IF i # 0 THEN RemoveAt(mems, i) ELSE mems, rec)

\* updateMemory applying `updates` u to the record at index i.
ApplyUpdates(mems, i, u, t) ==
  [mems EXCEPT ![i] =
     [@ EXCEPT !.trigger = IF u.trigger # Undef THEN u.trigger ELSE @,
               !.prompt = IF u.prompt # Undef THEN u.prompt ELSE @,
               !.updatedContext = IF u.context # Undef THEN u.context ELSE @,
               !.modalities = IF u.modalities # None THEN ModalitiesOf(u.modalities) ELSE @,
               !.updatedAt = t]]

\* A call returns: its slot is free again and its result is recorded, with whether
\* it ran testTrigger with success, the trigger it stored, and for an addMemory
\* whether it replaced a record ("new": never updated, "updated") or none.
Return(s, op, name, result, validated, stored, replaced) ==
  /\ ltCalls' = [ltCalls EXCEPT ![s] = NoLtCall]
  /\ ltOps' = ltOps + 1
  /\ lastOp' = [op |-> op, name |-> name, result |-> result, validated |-> validated,
                stored |-> stored, replaced |-> replaced]

\* A caller may start a call: the model runs at most MaxLtOps calls, and a new
\* call takes slot "A" when it is free.
CanStart(s) ==
  /\ ltCalls[s].pc = "idle"
  /\ s = "B" => ltCalls["A"].pc # "idle"
  /\ ltOps + Cardinality({x \in LtSlots : ltCalls[x].pc # "idle"}) < MaxLtOps

\* addMemory(memory) up to `await this.testTriggerCondition(memory.trigger)`.
LtAddStart(s, name, a) ==
  /\ CanStart(s)
  /\ IF ~Truthy(name) \/ ~Truthy(a.trigger) \/ ~Truthy(a.prompt)
     THEN /\ Return(s, "add", name, "missing-fields", FALSE, Undef, "none")
          /\ UNCHANGED memories
     ELSE /\ ltCalls' = [ltCalls EXCEPT ![s] =
                 [pc |-> "testing", op |-> "add", name |-> name, prompt |-> a.prompt,
                  trigger |-> a.trigger, context |-> a.context,
                  modalities |-> a.modalities, index |-> 0]]
          /\ UNCHANGED <<memories, ltOps, lastOp>>
  /\ UNCHANGED now

\* addMemory from the result of testTrigger to its return.
LtAddFinish(s) ==
  /\ ltCalls[s].pc = "testing" /\ ltCalls[s].op = "add"
  /\ LET a == ltCalls[s]
         i == FindIndex(memories, a.name)
     IN IF ~TestTrigger(a.trigger)
        THEN /\ Return(s, "add", a.name, "invalid-trigger", FALSE, Undef, "none")
             /\ UNCHANGED memories
        ELSE /\ memories' = Upsert(memories, NewMemory(a, now))
             /\ Return(s, "add", a.name, "success", TRUE, a.trigger,
                       IF i = 0 THEN "none"
                       ELSE IF memories[i].updatedAt = NoDate THEN "new" ELSE "updated")
  /\ UNCHANGED now

\* updateMemory(name, updates) up to `await this.testTriggerCondition(updates.trigger)`,
\* and to its return when updates.trigger is falsy.
LtUpdateStart(s, name, u) ==
  /\ CanStart(s)
  /\ LET i == FindIndex(memories, name)
     IN IF i = 0
        THEN /\ Return(s, "update", name, "not-found", FALSE, Undef, "none")
             /\ UNCHANGED memories
        ELSE IF Truthy(u.trigger)
        THEN /\ ltCalls' = [ltCalls EXCEPT ![s] =
                    [pc |-> "testing", op |-> "update", name |-> name,
                     prompt |-> u.prompt, trigger |-> u.trigger, context |-> u.context,
                     modalities |-> u.modalities, index |-> i]]
             /\ UNCHANGED <<memories, ltOps, lastOp>>
        ELSE /\ memories' = ApplyUpdates(memories, i, u, now)
             /\ Return(s, "update", name, "success", FALSE, u.trigger, "none")
  /\ UNCHANGED now

\* updateMemory from the result of testTrigger to its return: the index found
\* before the await is used on this.memories as it is now.
LtUpdateFinish(s) ==
  /\ ltCalls[s].pc = "testing" /\ ltCalls[s].op = "update"
  /\ LET a == ltCalls[s]
         u == [trigger |-> a.trigger, prompt |-> a.prompt, context |-> a.context,
               modalities |-> a.modalities]
     IN IF ~TestTrigger(a.trigger)
        THEN /\ Return(s, "update", a.name, "invalid-trigger", FALSE, Undef, "none")
             /\ UNCHANGED memories
        ELSE IF a.index > Len(memories)
        THEN /\ Return(s, "update", a.name, "threw", TRUE, Undef, "none")
             /\ UNCHANGED memories
        ELSE /\ memories' = ApplyUpdates(memories, a.index, u, now)
             /\ Return(s, "update", a.name, "success", TRUE, a.trigger, "none")
  /\ UNCHANGED now

\* deleteMemory(name)
LtDelete(s, name) ==
  /\ CanStart(s)
  /\ memories' = SelectSeq(memories, LAMBDA m : m.name # name)
  /\ Return(s, "delete", name,
            IF Len(memories') < Len(memories) THEN "true" ELSE "false",
            FALSE, Undef, "none")
  /\ UNCHANGED now

NextLongTerm ==
  \/ (\E s \in LtSlots, n \in LtNames, a \in AddPayloads : LtAddStart(s, n, a))
        /\ UNCHANGED <<storageVars, shutdownVars, managers, storageManagers, calls,
                       nextInstance, removed, engineVars>>
  \/ (\E s \in LtSlots : LtAddFinish(s))
        /\ UNCHANGED <<storageVars, shutdownVars, managers, storageManagers, calls,
                       nextInstance, removed, engineVars>>
  \/ (\E s \in LtSlots, n \in LtNames, u \in UpdatePayloads : LtUpdateStart(s, n, u))
        /\ UNCHANGED <<storageVars, shutdownVars, managers, storageManagers, calls,
                       nextInstance, removed, engineVars>>
  \/ (\E s \in LtSlots : LtUpdateFinish(s))
        /\ UNCHANGED <<storageVars, shutdownVars, managers, storageManagers, calls,
                       nextInstance, removed, engineVars>>
  \/ (\E s \in LtSlots, n \in LtNames : LtDelete(s, n))
        /\ UNCHANGED <<storageVars, shutdownVars, managers, storageManagers, calls,
                       nextInstance, removed, engineVars>>

(***************************************************************************)
(* memory/long-term.js: searchAndActivateMemories and getRandomMemories.   *)
(***************************************************************************)
\* The addMemory arguments of the search's model: triggers that pass testTrigger
\* and, outside the mock context, run to a value, throw or never end.
ActivatePayloads ==
  { [prompt |-> "p1", trigger |-> t, context |-> Undef, modalities |-> None] :
      t \in {"true", LiveThrowScript, AsyncLoopLiveScript} }

ActivateNames == {"alpha", "beta", "gamma"}

\* The contexts searchAndActivateMemories is called with.
SearchContexts == {c \in EvalContexts : c.conversation_id # "c2" /\ c.hits = 0}

NoSearch ==
  [pc |-> "idle", ctx |-> MockContext, cursor |-> 0, current |-> <<>>,
   triggered |-> FALSE, activated |-> <<>>, random |-> <<>>, evaluated |-> <<>>,
   snapshot |-> <<>>, undisturbed |-> TRUE]

EngineInit ==
  /\ evalCall = NoEval
  /\ search = NoSearch

\* No microtask that never ends has the host.
HostRunning == search.pc # "blocked" /\ evalCall.outcome.status # "blocked"

Min(a, b) == IF a < b THEN a ELSE b

\* [...available].sort(() => 0.5 - Math.random()): some order of the elements.
Shuffles(seq) ==
  LET n == Len(seq)
      perms == {p \in [1..n -> 1..n] : \A i, j \in 1..n : p[i] = p[j] => i = j}
  IN {[i \in 1..n |-> seq[p[i]]] : p \in perms}

GetRandomMemoriesOfAll(mems, count, excludeNames) ==
  {SubSeq(sh, 1, Min(count, Len(sh))) : sh \in Shuffles(mems)}

\* getRandomMemories(count, excludeNames): the results it can return.
GetRandomMemories(mems, count, excludeNames) ==
  LET available == SelectSeq(mems, LAMBDA m : m.name \notin excludeNames)
  IN {SubSeq(sh, 1, Min(count, Len(sh))) : sh \in Shuffles(available)}

Names(seq) == {seq[i].name : i \in 1..Len(seq)}

\* The for...of loop of searchAndActivateMemories takes the element at position i
\* of this.memories as it is now, and calls evaluateTrigger, which runs the script;
\* past the end it calls getRandomMemories and returns. `snapshot` is this.memories
\* as the call first saw it, and `undisturbed` that it has seen nothing else.
SearchNext(s0, i) ==
  LET sr == [s0 EXCEPT !.undisturbed = @ /\ memories = s0.snapshot]
  IN
  IF i <= Len(memories)
  THEN LET o == EvaluateTrigger(memories[i].trigger, sr.ctx)
       IN search' = [sr EXCEPT !.pc = IF o.status = "blocked" THEN "blocked"
                                      ELSE "evaluating",
                               !.cursor = i, !.current = <<memories[i]>>,
                               !.triggered = o.value,
                               !.evaluated = Append(@, memories[i].name)]
  ELSE \E r \in GetRandomMemories(memories, 2, Names(sr.activated)) :
         search' = [sr EXCEPT !.pc = "returned", !.cursor = i, !.current = <<>>,
                              !.random = r]

\* searchAndActivateMemories(context) up to its first await.
SearchStart(ctx) ==
  /\ search.pc = "idle"
  /\ SearchNext([NoSearch EXCEPT !.ctx = ctx, !.snapshot = memories], 1)
  /\ UNCHANGED <<evalCall, ltVars, stVars, utilVars>>

\* `await evaluateTrigger(...)` resumes: the memory is pushed when triggered, and
\* the loop goes on.
SearchResume ==
  /\ search.pc = "evaluating"
  /\ SearchNext([search EXCEPT !.activated =
                    IF search.triggered THEN @ \o search.current ELSE @],
                search.cursor + 1)
  /\ UNCHANGED <<evalCall, ltVars, stVars, utilVars>>

\* One search of a manager on which addMemory calls are made, one at a time;
\* this.memories is the same array throughout. Nothing runs once a microtask never ends.
NextActivate ==
  \/ HostRunning /\ (\E n \in ActivateNames, a \in ActivatePayloads :
                       LtAddStart("A", n, a))
        /\ UNCHANGED <<storageVars, shutdownVars, managers, storageManagers, calls,
                       nextInstance, removed, engineVars>>
  \/ HostRunning /\ LtAddFinish("A")
        /\ UNCHANGED <<storageVars, shutdownVars, managers, storageManagers, calls,
                       nextInstance, removed, engineVars>>
  \/ HostRunning /\ (\E ctx \in SearchContexts : SearchStart(ctx))
        /\ UNCHANGED <<storageVars, managerVars, shutdownVars>>
  \/ HostRunning /\ SearchResume /\ UNCHANGED <<storageVars, managerVars, shutdownVars>>

(***************************************************************************)
(* memory/short-term.js: ShortTermMemoryManager. Times are in seconds, and *)
(* relevance in thousandths.                                               *)
(***************************************************************************)
MaxStOps == 3

RELEVANCE_THRESHOLD == 5
SCORE_INCREMENT_TOP == 5
SCORE_INCREMENT_NEXT == 2
MAX_TIME_PENALTY == 15
MAX_SCORE == 100
CLEANUP_MIN_SCORE_THRESHOLD == -5
MEMORY_TTL == 365 * 24 * 60 * 60
MIN_TIME_DIFFERENCE_ANY == 10 * 60
MIN_TIME_DIFFERENCE_SAME_CONVERSATION == 20 * 60
MAX_TOP_RELEVANT == 2
MAX_NEXT_RELEVANT == 1
MAX_RANDOM_FLASHBACK == 2

\* MIN_RETAINED_MEMORIES, 512 in the source, scaled to the stores of the model.
MinRetained == 2

\* Date.now(): the calls of the model are made within one second.
StNow == 40000000

StConvs == {"c1", "c2"}

\* A Date that is not a time (getTime() is NaN), and a number that is beyond
\* the range of Date: new Date of it is such a Date.
InvalidDate == -1
BeyondDateRange == -2

\* new Date(number).
NewDate(n) == IF n = BeyondDateRange THEN InvalidDate ELSE n

\* Texts are sequences of tokens; these tokens are white space.
Whitespace == {" ", "\n"}

\* !text.trim(): the text is empty or white space only.
Blank(text) == \A i \in 1..Len(text) : text[i] \in Whitespace

Keyword(word, weight) == [word |-> word, weight |-> weight]

\* The words of the keywords of the model. NumberWord is a word that is a
\* number, not a string.
NumberWord == "<number>"
IsString(word) == word # NumberWord

\* String.prototype.trim and toLowerCase on the words of the model.
Trim(word) ==
  CASE word = " " -> ""
    [] word = " cat" -> "cat"
    [] OTHER -> word

ToLowerCase(word) ==
  CASE word = "Cat" -> "cat"
    [] OTHER -> word

\* A weight that is a number and not finite; Number.isFinite(weight).
Infinity == 1000
IsFinite(weight) == weight # Infinity

Max(a, b) == IF a > b THEN a ELSE b

\* Array.prototype.sort((a, b) => b.weight - a.weight): stable, by descending
\* weight.
RECURSIVE SortByWeight(_)
SortByWeight(items) ==
  IF items = <<>> THEN <<>>
  ELSE LET n == Len(items)
           init == SortByWeight(SubSeq(items, 1, n - 1))
           x == items[n]
           before == SelectSeq(init, LAMBDA y : y.weight >= x.weight)
           after == SelectSeq(init, LAMBDA y : y.weight < x.weight)
       IN before \o <<x>> \o after

\* The loop of deduplicateKeywords over the keywords left, with the entries of
\* keywordMap in their order of insertion. An entry met again gets the greater
\* weight (takeMax), or keeps its own.
RECURSIVE KeywordMap(_, _, _)
KeywordMap(keywords, map, takeMax) ==
  IF keywords = <<>> THEN map
  ELSE LET kw == Head(keywords)
           word == ToLowerCase(Trim(kw.word))
           weight == IF IsFinite(kw.weight) THEN kw.weight ELSE 1
       IN IF ~IsString(kw.word) \/ word = ""
          THEN KeywordMap(Tail(keywords), map, takeMax)
          ELSE IF \E i \in 1..Len(map) : map[i].key = word
          THEN KeywordMap(Tail(keywords),
                          [i \in 1..Len(map) |->
                             IF map[i].key = word
                             THEN [map[i] EXCEPT
                                     !.weight = IF takeMax THEN Max(@, weight)
                                                ELSE @]
                             ELSE map[i]],
                          takeMax)
          ELSE KeywordMap(Tail(keywords),
                          Append(map, [key |-> word, word |-> kw.word,
                                       weight |-> weight]),
                          takeMax)

\* A deduplicateKeywords that keeps the weight of the first entry of a word.
DeduplicateFirstWeight(keywords) ==
  LET map == KeywordMap(keywords, <<>>, FALSE)
  IN SortByWeight([i \in 1..Len(map) |-> Keyword(map[i].word, map[i].weight)])

\* deduplicateKeywords(keywords) of an array: the values of keywordMap, sorted.
DeduplicateKeywords(keywords) ==
  LET map == KeywordMap(keywords, <<>>, TRUE)
  IN SortByWeight([i \in 1..Len(map) |-> Keyword(map[i].word, map[i].weight)])

\* The property names of a memory object made by the manager.
EngineKeys ==
  {"time_stamp", "text", "keywords", "score", "conversation_id", "modalities",
   "attachments"}

\* A stored memory: its text, conversation_id, time_stamp, score and keywords,
\* and the names of its properties.
StMemory(text, conv, ts, score, keywords, keys) ==
  [text |-> text, conversation_id |-> conv, time_stamp |-> ts, score |-> score,
   keywords |-> keywords, keys |-> keys]

\* A message of a conversation; timestamp 0 stands for none.
Message(content, timestamp) ==
  [role |-> "user", content |-> content, timestamp |-> timestamp]

\* The arguments of the addMemory calls of the model: the messages, the
\* conversation, and the keywords jieba extracts from the messages.
StAddInputs ==
  { [messages |-> <<Message(<<"t1">>, 0)>>, conv |-> "c1",
     extracted |-> <<Keyword("cat", 3)>>],
    [messages |-> <<Message(<<"t2">>, StNow - 1200)>>, conv |-> "c1",
     extracted |-> <<Keyword("cat", 3)>>],
    [messages |-> <<Message(<<"t1">>, StNow - 1200)>>, conv |-> "c2",
     extracted |-> <<Keyword("cat", 5)>>],
    [messages |-> <<Message(<<"t2">>, StNow - 1799)>>, conv |-> "c2",
     extracted |-> <<Keyword("cat", 3)>>],
    [messages |-> <<Message(<<"t1">>, StNow - 3600)>>, conv |-> "c2",
     extracted |-> <<>>],
    [messages |-> <<Message(<<"t2">>, StNow + 60)>>, conv |-> "c1",
     extracted |-> <<Keyword("Cat", 4), Keyword("cat", 1)>>],
    [messages |-> <<Message(<<"t1">>, BeyondDateRange)>>, conv |-> "c2",
     extracted |-> <<>>],
    [messages |-> <<Message(<<" ">>, 0)>>, conv |-> "c1", extracted |-> <<>>],
    [messages |-> <<>>, conv |-> "c1", extracted |-> <<>>] }

\* The time of a record (time_stamp ?? timestamp ?? timeStamp): none, a string
\* in the ISO format, which Date parses, a string that Date does not parse, a
\* number of the epoch, or a Date object.
NoTime == [kind |-> "none", value |-> 0]
Parsable(t) == [kind |-> "parsable", value |-> t]
Unparsable == [kind |-> "unparsable", value |-> 0]
EpochNumber(t) == [kind |-> "number", value |-> t]
DateObject(t) == [kind |-> "date", value |-> t]

\* new Date(time) is a valid date.
ParsesAsDate(time) ==
  \/ time.kind \in {"parsable", "number"}
  \/ time.kind = "date" /\ time.value # InvalidDate

\* An entry of an array given to loadMemories: an object with a text (<<>> when
\* it has none), a time, a score (None when it has none) and keywords, or
\* something that is not an object.
RawMemory(text, conv, time, score, cat) ==
  [isObject |-> TRUE, text |-> text, conversation_id |-> conv, time_stamp |-> time,
   score |-> score,
   keywords |-> IF cat = 0 THEN <<>> ELSE <<Keyword("cat", cat)>>,
   keys |-> {"text", "conversation_id", "time_stamp", "score", "keywords"}]

NotAnObject ==
  [isObject |-> FALSE, text |-> <<>>, conversation_id |-> "", time_stamp |-> NoTime,
   score |-> None, keywords |-> <<>>, keys |-> {}]

Array(entries) == [isArray |-> TRUE, entries |-> entries]

NotAnArray == [isArray |-> FALSE, entries |-> <<>>]

\* The arguments of the loadMemories calls of the model.
StLoadInputs ==
  { Array(<<RawMemory(<<"t1">>, "c2", Parsable(StNow - 1200), Some(0), 3),
            RawMemory(<<"t2">>, "c2", Parsable(StNow - 1500), Some(3), 3),
            RawMemory(<<"t1">>, "c2", Parsable(StNow - 3000), Some(0), 3),
            RawMemory(<<"t2">>, "c2", Parsable(StNow - 3600), Some(0), 3)>>),
    Array([k \in 1..6 |->
             RawMemory(IF k = 6 THEN <<>> ELSE <<"t2">>, "c2",
                       Parsable(StNow - 600 * k),
                       IF k = 1 THEN None ELSE IF k = 5 THEN Some(98) ELSE Some(k),
                       3)]),
    Array(<<RawMemory(<<"t1">>, "c1", Parsable(StNow - 3000), Some(98), 0),
            RawMemory(<<"t2">>, "c2", Parsable(1), Some(-10), 0),
            RawMemory(<<"t2">>, "c1", Parsable(StNow - 2000), Some(-10), 0),
            RawMemory(<<"t1">>, "c2", Parsable(StNow - MEMORY_TTL), Some(20), 0)>>),
    Array(<<RawMemory(<<"t1">>, "c2", Parsable(StNow - 3600), Some(150), 0),
            RawMemory(<<"t2">>, "c2", Parsable(1), Some(-10), 0),
            RawMemory(<<"t2">>, "c1", Parsable(StNow - 2000), Some(-20), 0)>>),
    Array(<<NotAnObject,
            RawMemory(<<" ">>, "c2", Parsable(StNow - 3600), Some(0), 0),
            RawMemory(<<"t1">>, "c2", Unparsable, Some(0), 3),
            RawMemory(<<"t2">>, "c2", NoTime, Some(0), 3)>>),
    NotAnArray }

StNoOp == [op |-> "", args |-> <<>>, result |-> <<>>]

\* The short-term file before any save: an empty array, not written by
\* saveShortTermMemories. ofStore says that the data handed over last were the
\* memories of the manager (getMemories()), as the tool handlers hand them.
NoFile ==
  [data |-> Array(<<>>), written |-> FALSE, error |-> FALSE, ofStore |-> FALSE]

\* No call of deduplicateKeywords yet.
NotOptimized == [input |-> <<>>, output |-> <<>>, calls |-> 0]

ShortTermInit ==
  /\ stMemories = <<>>
  /\ stOps = 0
  /\ stLast = StNoOp
  /\ lastCleanupTime = StNow
  /\ stFile = NoFile
  /\ optimized = NotOptimized

\* A short-term call with the given arguments returns.
StReturn(op, args, result) ==
  /\ stOps' = stOps + 1
  /\ stLast' = [op |-> op, args |-> args, result |-> result]

\* The keywords with a string word, a weight that is not finite made 1.
NormalizeKeywords(keywords) ==
  LET strings == SelectSeq(keywords, LAMBDA kw : IsString(kw.word))
  IN [i \in 1..Len(strings) |->
        Keyword(strings[i].word,
                IF IsFinite(strings[i].weight) THEN strings[i].weight ELSE 1)]

\* A loadMemories that keeps the objects with a blank text.
LoadMemoriesBlank(raw) ==
  IF ~raw.isArray THEN <<>>
  ELSE LET live == SelectSeq(raw.entries, LAMBDA mem : mem.isObject)
       IN [i \in 1..Len(live) |->
             StMemory(live[i].text, live[i].conversation_id,
                      IF ParsesAsDate(live[i].time_stamp)
                      THEN live[i].time_stamp.value ELSE StNow,
                      IF live[i].score = None THEN 0 ELSE live[i].score[1],
                      NormalizeKeywords(live[i].keywords),
                      live[i].keys \cup EngineKeys)]

\* loadMemories(memories): nothing of what is not an array; of an array, the
\* objects with a text that is not blank. A time that is missing or does not
\* parse becomes the current time, a score that is not a finite number 0.
LoadMemories(raw) ==
  IF ~raw.isArray THEN <<>>
  ELSE LET live == SelectSeq(raw.entries,
                             LAMBDA mem : mem.isObject /\ ~Blank(mem.text))
       IN [i \in 1..Len(live) |->
             StMemory(live[i].text, live[i].conversation_id,
                      IF ParsesAsDate(live[i].time_stamp)
                      THEN live[i].time_stamp.value ELSE StNow,
                      IF live[i].score = None THEN 0 ELSE live[i].score[1],
                      NormalizeKeywords(live[i].keywords),
                      live[i].keys \cup EngineKeys)]

\* MAX_TIME_PENALTY * (1 - exp(-timeDiff * TIME_DECAY_FACTOR_EXP)) in thousandths,
\* for the time differences of the model: of at most an hour (where it is
\* 0.03 * timeDiff to less than a thousandth) or of more than a year (15).
TimePenalty(timeDiff) ==
  IF timeDiff >= MEMORY_TTL THEN 1000 * MAX_TIME_PENALTY
  ELSE Min(1000 * MAX_TIME_PENALTY, (3 * timeDiff) \div 100)

\* The sum of the elements of a sequence of numbers.
RECURSIVE Sum(_)
Sum(ns) == IF ns = <<>> THEN 0 ELSE ns[1] + Sum(Tail(ns))

\* memoryKeywordMap.get(word).weight: the weights of the memory's keywords of
\* exactly this word, added up.
MemoryWeight(keywords, word) ==
  Sum([i \in 1..Len(keywords) |->
         IF keywords[i].word = word THEN keywords[i].weight ELSE 0])

\* keywordMatchScore: for each current keyword whose word is a key of the
\* memory's keyword map, its weight and the memory's.
KeywordMatchScore(keywords, currentKeywords) ==
  Sum([c \in 1..Len(currentKeywords) |->
         IF \E i \in 1..Len(keywords) : keywords[i].word = currentKeywords[c].word
         THEN currentKeywords[c].weight
                + MemoryWeight(keywords, currentKeywords[c].word)
         ELSE 0])

\* calculateRelevance(memory, currentKeywords, currentTimeStamp), in thousandths.
\* The time of a memory whose time_stamp is not a time counts as 0.
CalculateRelevance(mem, currentKeywords, currentTimeStamp) ==
  LET memoryTime == IF mem.time_stamp = InvalidDate THEN 0 ELSE mem.time_stamp
      timeDiff == IF currentTimeStamp - memoryTime > 0
                  THEN currentTimeStamp - memoryTime ELSE 0
  IN 1000 * KeywordMatchScore(mem.keywords, currentKeywords)
       - TimePenalty(timeDiff) + 1000 * mem.score

\* The search queries of the model: the conversation of the call and the
\* keywords of the recent messages.
StQueries == [conv : StConvs, keywords : {<<>>, <<Keyword("cat", 3)>>}]

\* scoredMemories of searchRelevantMemories: an item for each memory of
\* relevance RELEVANCE_THRESHOLD or more, in the order of the store.
Scored(mems, q) ==
  LET items == [i \in 1..Len(mems) |->
                  [memory |-> mems[i],
                   relevance |-> CalculateRelevance(mems[i], q.keywords, StNow),
                   index |-> i]]
  IN SelectSeq(items, LAMBDA item : item.relevance >= 1000 * RELEVANCE_THRESHOLD)

\* The mutation of SortByRelevance: the order of the store.
SortNot(items) == items

\* Array.prototype.sort((a, b) => b.relevance - a.relevance): stable, by
\* descending relevance.
RECURSIVE SortByRelevance(_)
SortByRelevance(items) ==
  IF items = <<>> THEN <<>>
  ELSE LET n == Len(items)
           init == SortByRelevance(SubSeq(items, 1, n - 1))
           x == items[n]
           before == SelectSeq(init, LAMBDA y : y.relevance >= x.relevance)
           after == SelectSeq(init, LAMBDA y : y.relevance < x.relevance)
       IN before \o <<x>> \o after

\* The mutation of TooRecent: memories of the same conversation are never skipped.
TooRecentNever(mem, conv) == FALSE

\* The memory is of the conversation of the search and less than 20 minutes old.
TooRecent(mem, conv) ==
  mem.conversation_id = conv
    /\ StNow - mem.time_stamp < MIN_TIME_DIFFERENCE_SAME_CONVERSATION

\* The mutation of TooClose: only the first selected item is compared.
TooCloseToFirst(mem, selected) ==
  selected # <<>>
    /\ LET d == mem.time_stamp - selected[1].memory.time_stamp
       IN (IF d < 0 THEN -d ELSE d) < MIN_TIME_DIFFERENCE_ANY

\* The memory is less than 10 minutes from one of the selected items.
TooClose(mem, selected) ==
  \E k \in 1..Len(selected) :
    LET d == mem.time_stamp - selected[k].memory.time_stamp
    IN (IF d < 0 THEN -d ELSE d) < MIN_TIME_DIFFERENCE_ANY

\* The mutation of SelectRelevant: nextRelevant is filled before topRelevant.
RECURSIVE SelectNextFirst(_, _, _, _, _)
SelectNextFirst(scored, k, conv, top, next) ==
  IF k > Len(scored) THEN [top |-> top, next |-> next]
  ELSE IF Len(top) >= MAX_TOP_RELEVANT /\ Len(next) >= MAX_NEXT_RELEVANT
  THEN [top |-> top, next |-> next]
  ELSE IF TooRecent(scored[k].memory, conv)
  THEN SelectNextFirst(scored, k + 1, conv, top, next)
  ELSE IF TooClose(scored[k].memory, top \o next)
  THEN SelectNextFirst(scored, k + 1, conv, top, next)
  ELSE IF Len(next) < MAX_NEXT_RELEVANT
  THEN SelectNextFirst(scored, k + 1, conv, top, Append(next, scored[k]))
  ELSE SelectNextFirst(scored, k + 1, conv, Append(top, scored[k]), next)

\* The loop over scoredMemories from candidate k on, given the two lists so far.
RECURSIVE SelectRelevant(_, _, _, _, _)
SelectRelevant(scored, k, conv, top, next) ==
  IF k > Len(scored) THEN [top |-> top, next |-> next]
  ELSE IF Len(top) >= MAX_TOP_RELEVANT /\ Len(next) >= MAX_NEXT_RELEVANT
  THEN [top |-> top, next |-> next]
  ELSE IF TooRecent(scored[k].memory, conv)
  THEN SelectRelevant(scored, k + 1, conv, top, next)
  ELSE IF TooClose(scored[k].memory, top \o next)
  THEN SelectRelevant(scored, k + 1, conv, top, next)
  ELSE IF Len(top) < MAX_TOP_RELEVANT
  THEN SelectRelevant(scored, k + 1, conv, Append(top, scored[k]), next)
  ELSE IF Len(next) < MAX_NEXT_RELEVANT
  THEN SelectRelevant(scored, k + 1, conv, top, Append(next, scored[k]))
  ELSE SelectRelevant(scored, k + 1, conv, top, next)

\* currentCandidates of a round of the random flashback: the items of the pool
\* that pass the two time filters against the items chosen so far.
CurrentCandidates(pool, conv, chosen) ==
  SelectSeq(pool, LAMBDA item : ~TooRecent(item.memory, conv)
                                  /\ ~TooClose(item.memory, chosen))

\* The random flashbacks the loop can end with from round i on: every candidate
\* has a weight of BASE_RANDOM_WEIGHT or more, so selectOneWeightedRandom can
\* return any of them.
RECURSIVE RandomFlashbacks(_, _, _, _, _)
RandomFlashbacks(pool, conv, relevant, random, i) ==
  LET candidates == CurrentCandidates(pool, conv, relevant \o random)
  IN IF i >= MAX_RANDOM_FLASHBACK \/ pool = <<>> \/ candidates = <<>>
     THEN {random}
     ELSE UNION { RandomFlashbacks(
                    SelectSeq(pool, LAMBDA item : item.index # candidates[c].index),
                    conv, relevant, Append(random, candidates[c]), i + 1)
                  : c \in 1..Len(candidates) }

\* The mutation of Reinforce: the score is raised without the cap.
ReinforceUncapped(mems, top, next) ==
  [i \in 1..Len(mems) |->
     IF \E k \in 1..Len(top) : top[k].index = i
     THEN [mems[i] EXCEPT !.score = @ + SCORE_INCREMENT_TOP]
     ELSE IF \E k \in 1..Len(next) : next[k].index = i
     THEN [mems[i] EXCEPT !.score = @ + SCORE_INCREMENT_NEXT]
     ELSE mems[i]]

\* The scores after the reinforcement of the items of the two lists.
Reinforce(mems, top, next) ==
  [i \in 1..Len(mems) |->
     IF \E k \in 1..Len(top) : top[k].index = i
     THEN [mems[i] EXCEPT !.score = Min(@ + SCORE_INCREMENT_TOP, MAX_SCORE)]
     ELSE IF \E k \in 1..Len(next) : next[k].index = i
     THEN [mems[i] EXCEPT !.score = Min(@ + SCORE_INCREMENT_NEXT, MAX_SCORE)]
     ELSE mems[i]]

MaxKeywords == 3

\* The entries of the arrays given to deduplicateKeywords in the model.
KeywordEntries ==
  {Keyword(word, weight) :
     word \in {"cat", "Cat", " cat", "dog", " ", NumberWord},
     weight \in {1, 3, Infinity}}

KeywordArrays ==
  UNION {[1..n -> KeywordEntries] : n \in 0..MaxKeywords}

\* A call of deduplicateKeywords(keywords).
DeduplicateCall(keywords) ==
  /\ optimized' = [input |-> keywords, output |-> DeduplicateKeywords(keywords),
                   calls |-> 1]
  /\ UNCHANGED <<stMemories, stOps, stLast, lastCleanupTime, stFile>>

NextOptimizer ==
  /\ optimized.calls = 0
  /\ \E keywords \in KeywordArrays : DeduplicateCall(keywords)
  /\ UNCHANGED <<storageVars, managerVars, shutdownVars, ltVars, evalCall, search,
                   utilVars>>

\* key.startsWith('_') on the property names of the model.
StartsWithUnderscore(key) == key \in {"_relevance"}

\* A memory of the manager as the object getMemories() gives: its time_stamp
\* is a Date, its score a number.
MemoryObject(mem) ==
  [isObject |-> TRUE, text |-> mem.text, conversation_id |-> mem.conversation_id,
   time_stamp |-> DateObject(mem.time_stamp), score |-> Some(mem.score),
   keywords |-> mem.keywords, keys |-> mem.keys]

GetMemories(mems) == [i \in 1..Len(mems) |-> MemoryObject(mems[i])]

\* prepareShortTermMemoryForStorage(memory) throws: memory.keywords of null, or
\* toISOString() of a Date that is not a time.
PrepareThrows(memory) ==
  \/ ~memory.isObject
  \/ memory.time_stamp.kind = "date" /\ memory.time_stamp.value = InvalidDate

\* normalizeDateLike(value): the ISO string of a Date, anything else as it is.
NormalizeDateLike(value) ==
  IF value.kind = "date" THEN Parsable(value.value) ELSE value

\* prepareShortTermMemoryForStorage(memory): the properties named '_...' are
\* stripped, the time goes to timestamp, time_stamp, timeStamp and attachments
\* are deleted, the keywords with a string word are deduplicated.
PrepareShortTermMemoryForStorage(memory) ==
  LET sanitized == {key \in memory.keys : ~StartsWithUnderscore(key)}
      timeSource == memory.time_stamp
  IN [isObject |-> TRUE, text |-> memory.text,
      conversation_id |-> memory.conversation_id,
      time_stamp |-> NormalizeDateLike(timeSource),
      score |-> memory.score,
      keywords |-> DeduplicateKeywords(NormalizeKeywords(memory.keywords)),
      keys |-> ((sanitized
                   \cup (IF timeSource.kind # "none" THEN {"timestamp"} ELSE {}))
                  \ {"time_stamp", "timeStamp", "attachments"})
                \cup {"modalities"}]

\* saveShortTermMemories(memories): the prepared memories are handed to
\* saveJsonFile, unless the preparation of one of them throws.
SaveShortTermMemories(mems) ==
  IF \E i \in 1..Len(mems) : PrepareThrows(mems[i])
  THEN stFile' = [stFile EXCEPT !.error = TRUE]
  ELSE stFile' =
         [data |-> Array([i \in 1..Len(mems) |->
                            PrepareShortTermMemoryForStorage(mems[i])]),
          written |-> TRUE, error |-> FALSE,
          ofStore |-> mems = GetMemories(stMemories')]

(***************************************************************************)
(* extractMessageKeywords (short-term.js). Weights of keywords are in       *)
(* tenths, role weights in tenths, their products in hundredths.            *)
(***************************************************************************)
MaxMessages == 2

\* KEYWORD_MIN_WEIGHT, in hundredths.
KEYWORD_MIN_WEIGHT == 80

\* The number of keywords extractMessageKeywords returns at most: 72 in the
\* code.
TopKeywords == 2

Roles == {"user", "assistant", "system"}

\* The roleWeights argument; 0 stands for a weight that is not given.
NoWeights == [user |-> 0, assistant |-> 0, system |-> 0]
RoleWeightArgs == {NoWeights, [user |-> 27, assistant |-> 20, system |-> 0]}

\* A message with the keywords extractKeywords(content, 72) gives for its
\* content.
RoleMessage(role, content, keywords) ==
  [role |-> role, content |-> content, keywords |-> keywords]

ExtractionMessages ==
  {RoleMessage(role, <<"t1">>, keywords) :
     role \in Roles,
     keywords \in {<<Keyword("cat", 5)>>, <<Keyword("cat", 3), Keyword("dog", 9)>>,
                   <<Keyword("dog", 4), Keyword("owl", 8), Keyword("cat", 12)>>}}
    \cup {RoleMessage("user", <<" ">>, <<>>)}

ExtractionArgs ==
  UNION {[1..n -> ExtractionMessages] : n \in 0..MaxMessages}

\* keywordMap after the loop over the messages left: for each word, in the
\* order of insertion, kw.weight * multiplier added up.
RECURSIVE WeighKeywords(_, _, _)
WeighKeywords(keywords, multiplier, map) ==
  IF keywords = <<>> THEN map
  ELSE LET kw == Head(keywords)
           added == kw.weight * multiplier
       IN WeighKeywords(Tail(keywords), multiplier,
            IF \E i \in 1..Len(map) : map[i].word = kw.word
            THEN [i \in 1..Len(map) |->
                    IF map[i].word = kw.word
                    THEN [map[i] EXCEPT !.weight = added + @] ELSE map[i]]
            ELSE Append(map, Keyword(kw.word, added)))

\* A multiplier that is the documented default of the role when none is given.
DocumentedMultiplier(weights, role) ==
  IF weights[role] # 0 THEN weights[role]
  ELSE CASE role = "user" -> 27 [] role = "assistant" -> 20 [] OTHER -> 10

\* weights[message.role] || 1.0.
Multiplier(weights, role) == IF weights[role] # 0 THEN weights[role] ELSE 10

RECURSIVE MessageKeywordMap(_, _, _)
MessageKeywordMap(messages, weights, map) ==
  IF messages = <<>> THEN map
  ELSE LET message == Head(messages)
       IN MessageKeywordMap(Tail(messages), weights,
            IF Blank(message.content) THEN map
            ELSE WeighKeywords(message.keywords,
                               Multiplier(weights, message.role), map))

\* extractMessageKeywords(messages, weights).
ExtractMessageKeywords(messages, weights) ==
  LET map == MessageKeywordMap(messages, weights, <<>>)
      heavy == SelectSeq(map, LAMBDA kw : kw.weight >= KEYWORD_MIN_WEIGHT)
      sorted == SortByWeight(heavy)
  IN SubSeq(sorted, 1, Min(Len(sorted), TopKeywords))

NotExtracted == [messages |-> <<>>, weights |-> NoWeights, output |-> <<>>,
                 calls |-> 0]

\* A call of extractMessageKeywords(messages, weights).
ExtractCall(messages, weights) ==
  extraction' = [messages |-> messages, weights |-> weights,
                 output |-> ExtractMessageKeywords(messages, weights),
                 calls |-> 1]

NextExtract ==
  /\ extraction.calls = 0
  /\ \E messages \in ExtractionArgs, weights \in RoleWeightArgs :
       ExtractCall(messages, weights)
  /\ UNCHANGED <<storageVars, managerVars, shutdownVars, ltVars, evalCall, search,
                 stVars, lru, matched, durable, limiter>>

(***************************************************************************)
(* LRUCache (utils/lru-cache.js): one cache of maxSize LruMaxSize and of    *)
(* maxAge LruMaxAge ticks, and the calls of its methods.                    *)
(***************************************************************************)
LruMaxSize == 2
LruMaxAge == 1
LruMaxTime == 2
MaxLruOps == 4

\* The keys of the calls: one more than the cache holds.
LruKeyNames == 1..(LruMaxSize + 1)

\* has(key): false for a missing or idle-expired key (which it deletes), else
\* true; the access time stays as it is.
LRUHas(c, k, t, maxAge) ==
  IF k \notin LRUKeys(c) THEN [cache |-> c, value |-> FALSE]
  ELSE IF t - c[LRUIndex(c, k)].time > maxAge
       THEN [cache |-> LRUDelete(c, k), value |-> FALSE]
       ELSE [cache |-> c, value |-> TRUE]

\* clear()
LRUClear(c) == <<>>

\* The accesses of the keys as an observer of the calls counts them: for each
\* key of the cache the number and the time of the latest get that returned its
\* value or set of it.
NoAccess == [seq |-> 0, at |-> 0]

Accessed(k) == [seq |-> lru.ops + 1, at |-> lru.now]

\* The cache and the clock after construction.
LruInit ==
  lru = [cache |-> <<>>, now |-> 0, ops |-> 0,
         access |-> [k \in LruKeyNames |-> NoAccess],
         last |-> [op |-> "new", key |-> 0, result |-> Undefined,
                   before |-> <<>>, accessed |-> [k \in LruKeyNames |-> NoAccess],
                   at |-> 0]]

\* A call has returned: the cache is c, key k (0: none) has been accessed if
\* touch holds, and the keys that left the cache have no access any more.
LruReturn(op, k, c, touch, result) ==
  lru' = [cache |-> c, now |-> lru.now, ops |-> lru.ops + 1,
          access |-> [j \in LruKeyNames |->
                        IF j \notin LRUKeys(c) THEN NoAccess
                        ELSE IF touch /\ j = k THEN Accessed(k)
                        ELSE lru.access[j]],
          last |-> [op |-> op, key |-> k, result |-> result,
                    before |-> lru.cache, accessed |-> lru.access,
                    at |-> lru.now]]

LruGetCall(k) ==
  LET r == LRUGet(lru.cache, k, lru.now, LruMaxAge)
  IN LruReturn("get", k, r.cache, r.value # Undefined, r.value)

\* set(key, value): the value of the call is the number of the call.
LruSetCall(k) ==
  LruReturn("set", k, LRUSet(lru.cache, k, lru.ops + 1, lru.now, LruMaxSize),
            TRUE, Undefined)

LruHasCall(k) ==
  LET r == LRUHas(lru.cache, k, lru.now, LruMaxAge)
  IN LruReturn("has", k, r.cache, FALSE, r.value)

\* delete(key): true if the key was there.
LruDeleteCall(k) ==
  LruReturn("delete", k, LRUDelete(lru.cache, k), FALSE, k \in LRUKeys(lru.cache))

\* cleanExpired(): the number of the entries it deleted.
LruCleanExpiredCall ==
  LET c == LRUCleanExpired(lru.cache, lru.now, LruMaxAge)
  IN LruReturn("cleanExpired", 0, c, FALSE, Len(lru.cache) - Len(c))

LruClearCall == LruReturn("clear", 0, LRUClear(lru.cache), FALSE, Undefined)

\* Date.now() moves on between two calls.
LruTick ==
  /\ lru.now < LruMaxTime
  /\ lru' = [lru EXCEPT !.now = @ + 1]

NextLru ==
  \/ /\ lru.ops < MaxLruOps
     /\ \E k \in LruKeyNames : LruGetCall(k)
     /\ UNCHANGED <<storageVars, managerVars, shutdownVars, ltVars, evalCall, search,
                    stVars, extraction, matched, durable, limiter>>
  \/ /\ lru.ops < MaxLruOps
     /\ \E k \in LruKeyNames : LruSetCall(k)
     /\ UNCHANGED <<storageVars, managerVars, shutdownVars, ltVars, evalCall, search,
                    stVars, extraction, matched, durable, limiter>>
  \/ /\ lru.ops < MaxLruOps
     /\ \E k \in LruKeyNames : LruHasCall(k)
     /\ UNCHANGED <<storageVars, managerVars, shutdownVars, ltVars, evalCall, search,
                    stVars, extraction, matched, durable, limiter>>
  \/ /\ lru.ops < MaxLruOps
     /\ \E k \in LruKeyNames : LruDeleteCall(k)
     /\ UNCHANGED <<storageVars, managerVars, shutdownVars, ltVars, evalCall, search,
                    stVars, extraction, matched, durable, limiter>>
  \/ /\ lru.ops < MaxLruOps
     /\ LruCleanExpiredCall
     /\ UNCHANGED <<storageVars, managerVars, shutdownVars, ltVars, evalCall, search,
                    stVars, extraction, matched, durable, limiter>>
  \/ /\ lru.ops < MaxLruOps
     /\ LruClearCall
     /\ UNCHANGED <<storageVars, managerVars, shutdownVars, ltVars, evalCall, search,
                    stVars, extraction, matched, durable, limiter>>
  \/ LruTick
     /\ UNCHANGED <<storageVars, managerVars, shutdownVars, ltVars, evalCall, search,
                    stVars, extraction, matched, durable, limiter>>

\* getShortTermManager: manager.loadMemories(memories) of the memories of the
\* short-term file.
StLoad(raw) ==
  /\ stOps < MaxStOps
  /\ stMemories' = LoadMemories(raw)
  /\ stFile' = [data |-> raw, written |-> FALSE, error |-> FALSE,
                ofStore |-> FALSE]
  /\ StReturn("loadMemories", raw, <<>>)
  /\ UNCHANGED <<lastCleanupTime, optimized>>

\* createContextSnapshot(messages): a line "speaker: content" for each message,
\* the lines joined by newlines.
RECURSIVE CreateContextSnapshot(_)
CreateContextSnapshot(messages) ==
  IF messages = <<>> THEN <<>>
  ELSE LET line == <<messages[1].role, ":", " ">> \o messages[1].content
       IN IF Len(messages) = 1 THEN line
          ELSE line \o <<"\n">> \o CreateContextSnapshot(Tail(messages))

\* The memory addMemory makes of its arguments.
AddedMemory(a) ==
  LET lastMessage == a.messages[Len(a.messages)]
  IN StMemory(CreateContextSnapshot(a.messages), a.conv,
              NewDate(IF lastMessage.timestamp # 0 THEN lastMessage.timestamp
                      ELSE StNow),
              0, a.extracted, EngineKeys)

\* addMemory(messages, conversationId): false for no messages and for a blank
\* snapshot; else a memory of score 0 is appended, dated by the last message or
\* by the clock.
StAddMemory(a) ==
  /\ stOps < MaxStOps
  /\ UNCHANGED <<lastCleanupTime, optimized>>
  /\ IF a.messages = <<>> \/ Blank(CreateContextSnapshot(a.messages))
     THEN /\ UNCHANGED <<stMemories, stFile>>
          /\ StReturn("addMemory", a, FALSE)
     ELSE /\ stMemories' = Append(stMemories, AddedMemory(a))
          /\ SaveShortTermMemories(GetMemories(stMemories'))
          /\ StReturn("addMemory", a, TRUE)

\* searchRelevantMemories(recentMessages, conversationId): the selection of the
\* relevant memories, the random flashback and the reinforcement.
StSearch(q) ==
  /\ stOps < MaxStOps
  /\ UNCHANGED <<lastCleanupTime, optimized>>
  /\ LET scored == SortByRelevance(Scored(stMemories, q))
         sel == SelectRelevant(scored, 1, q.conv, <<>>, <<>>)
         relevant == sel.top \o sel.next
         all == [i \in 1..Len(stMemories) |-> [memory |-> stMemories[i], index |-> i]]
         pool == SelectSeq(all, LAMBDA item :
                   \A k \in 1..Len(relevant) : relevant[k].index # item.index)
         reinforced == Reinforce(stMemories, sel.top, sel.next)
         \* the items hold the memory objects of the store, reinforced or not
         returned(items) == [k \in 1..Len(items) |->
                               [items[k] EXCEPT !.memory = reinforced[items[k].index]]]
     IN \E picks \in RandomFlashbacks(pool, q.conv, relevant, <<>>, 0) :
          /\ stMemories' = reinforced
          /\ SaveShortTermMemories(GetMemories(stMemories'))
          /\ StReturn("searchRelevantMemories", q,
                      [query |-> q,
                       topRelevant |-> returned(sel.top),
                       nextRelevant |-> returned(sel.next),
                       randomFlashback |->
                         returned([k \in 1..Len(picks) |->
                            [memory |-> picks[k].memory,
                             relevance |-> CalculateRelevance(picks[k].memory,
                                                              q.keywords, StNow),
                             index |-> picks[k].index]])])

\* The patterns of the deleteMemories calls of the model: a string, or a
\* regular expression of one token with its flags, as the
\* delete_short_term_memories tool makes them of "token" and "/token/flags".
StPatterns ==
  { [isRegExp |-> FALSE, source |-> "t1", flags |-> ""],
    [isRegExp |-> TRUE, source |-> "t2", flags |-> ""],
    [isRegExp |-> TRUE, source |-> "t1", flags |-> "g"],
    [isRegExp |-> TRUE, source |-> "t2", flags |-> "y"] }

\* The first position (from 0) at or after `from` where the token is in the
\* text, -1 when there is none.
IndexOf(text, token, from) ==
  LET at == {i \in from..(Len(text) - 1) : text[i + 1] = token}
  IN IF at = {} THEN -1 ELSE CHOOSE i \in at : \A k \in at : i <= k

\* text.includes(pattern).
Includes(text, token) == IndexOf(text, token, 0) # -1

\* pattern.test(text) for a regular expression whose lastIndex is given: the
\* result and the lastIndex it leaves. Without the g and y flags the search is
\* from the start; with g it is from lastIndex; with y the match is at lastIndex.
RegExpTest(pattern, text, lastIndex) ==
  IF pattern.flags = ""
  THEN [result |-> Includes(text, pattern.source), lastIndex |-> lastIndex]
  ELSE LET found == IF lastIndex > Len(text) THEN -1
                    ELSE IndexOf(text, pattern.source, lastIndex)
           hit == IF pattern.flags = "y" THEN found = lastIndex ELSE found # -1
       IN IF hit THEN [result |-> TRUE, lastIndex |-> found + 1]
          ELSE [result |-> FALSE, lastIndex |-> 0]

\* this.memories.filter(mem => !pattern.test(mem.text)) from memory k on, the
\* one regular expression keeping its lastIndex from test to test.
RECURSIVE FilterByRegExp(_, _, _, _)
FilterByRegExp(mems, pattern, k, lastIndex) ==
  IF k > Len(mems) THEN <<>>
  ELSE LET t == RegExpTest(pattern, mems[k].text, lastIndex)
           rest == FilterByRegExp(mems, pattern, k + 1, t.lastIndex)
       IN IF t.result THEN rest ELSE <<mems[k]>> \o rest

\* deleteMemories(pattern): the store without the memories whose text the
\* pattern matched.
DeleteMemories(mems, pattern) ==
  IF pattern.isRegExp THEN FilterByRegExp(mems, pattern, 1, 0)
  ELSE SelectSeq(mems, LAMBDA mem : ~Includes(mem.text, pattern.source))

StDeleteMemories(pattern) ==
  /\ stOps < MaxStOps
  /\ UNCHANGED <<lastCleanupTime, optimized>>
  /\ stMemories' = DeleteMemories(stMemories, pattern)
  /\ SaveShortTermMemories(GetMemories(stMemories'))
  /\ StReturn("deleteMemories", pattern,
              Len(stMemories) - Len(DeleteMemories(stMemories, pattern)))

\* A memory passes the two tests of cleanup: it is not older than MEMORY_TTL (a
\* time_stamp that is not a time is not) and its relevance is
\* CLEANUP_MIN_SCORE_THRESHOLD or more.
CleanupPasses(m) ==
  /\ ~(m.time_stamp # InvalidDate /\ m.time_stamp < StNow - MEMORY_TTL)
  /\ CalculateRelevance(m, <<>>, StNow) >= 1000 * CLEANUP_MIN_SCORE_THRESHOLD

\* The mutation of Cleanup: only the passing memories stay, whatever their number.
CleanupPassingOnly(mems) == SelectSeq(mems, CleanupPasses)

\* cleanup(): the passing memories stay, topped up to MinRetained with the most
\* relevant of the others.
Cleanup(mems) ==
  LET item(m) == [memory |-> m, relevance |-> CalculateRelevance(m, <<>>, StNow)]
      items == [i \in 1..Len(mems) |-> item(mems[i])]
      passes(it) == CleanupPasses(it.memory)
      passing == SelectSeq(items, passes)
      failing == SortByRelevance(SelectSeq(items, LAMBDA it : ~passes(it)))
      kept == IF Len(passing) >= MinRetained THEN passing
              ELSE passing \o SubSeq(failing, 1,
                                     Min(Len(failing), MinRetained - Len(passing)))
  IN [i \in 1..Len(kept) |-> kept[i].memory]

\* shouldCleanup(): more than CLEANUP_INTERVAL since the last cleanup, or since
\* the construction.
CLEANUP_INTERVAL == 24 * 60 * 60

ShouldCleanup == StNow - lastCleanupTime > CLEANUP_INTERVAL

\* cleanup(), as the cleanup_memories tool calls it: with no test before it.
StCleanup ==
  /\ stOps < MaxStOps
  /\ stMemories' = Cleanup(stMemories)
  /\ lastCleanupTime' = StNow
  /\ SaveShortTermMemories(GetMemories(stMemories'))
  /\ UNCHANGED optimized
  /\ StReturn("cleanup", <<>>, Len(stMemories) - Len(Cleanup(stMemories)))

\* The short_term arrays of the backup files of the model.
StBackups ==
  { <<RawMemory(<<"t1">>, "c1", Parsable(StNow - 3600), Some(1), 3)>>,
    <<[RawMemory(<<"t2">>, "c1", Parsable(StNow - 1800), Some(0), 0) EXCEPT
         !.keywords = <<Keyword("cat", 1), Keyword("Cat", 3), Keyword(" ", 3)>>,
         !.keys = @ \cup {"timeStamp", "attachments", "_relevance"}]>>,
    <<RawMemory(<<"t1">>, "c2", EpochNumber(StNow - 3600), Some(0), 3)>>,
    <<RawMemory(<<"t1">>, "c2", NoTime, Some(0), 0), NotAnObject>> }

\* restore_memories: the short_term array of the backup, after the memories of
\* the file when merging, is handed to saveJsonFile, which writes it after
\* WRITE_DELAY_MS; the manager then loads the file, which holds what it held
\* before the call.
StRestore(backup, merge) ==
  /\ stOps < MaxStOps
  /\ UNCHANGED <<lastCleanupTime, optimized>>
  /\ LET existing == stFile.data
         merged == IF merge THEN existing.entries \o backup ELSE backup
         args == [backup |-> backup, merge |-> merge]
     IN IF merge /\ ~existing.isArray
        THEN /\ UNCHANGED <<stMemories, stFile>>
             /\ StReturn("restore", args, FALSE)
        ELSE /\ IF \E i \in 1..Len(merged) : PrepareThrows(merged[i])
                THEN /\ UNCHANGED stMemories
                     /\ StReturn("restore", args, FALSE)
                ELSE /\ stMemories' = LoadMemories(existing)
                     /\ StReturn("restore", args, TRUE)
             /\ SaveShortTermMemories(merged)

\* A new manager of the conversation loads the merged of the short-term file.
StReload ==
  /\ stOps < MaxStOps
  /\ stMemories' = LoadMemories(stFile.data)
  /\ StReturn("reload", stFile.data, <<>>)
  /\ UNCHANGED <<lastCleanupTime, stFile, optimized>>

NextShortTerm ==
  \/ \E raw \in StLoadInputs : StLoad(raw)
       /\ UNCHANGED <<storageVars, managerVars, shutdownVars, ltVars, evalCall, search,
                   utilVars>>
  \/ \E a \in StAddInputs : StAddMemory(a)
       /\ UNCHANGED <<storageVars, managerVars, shutdownVars, ltVars, evalCall, search,
                   utilVars>>
  \/ \E q \in StQueries : StSearch(q)
       /\ UNCHANGED <<storageVars, managerVars, shutdownVars, ltVars, evalCall, search,
                   utilVars>>
  \/ \E pattern \in StPatterns : StDeleteMemories(pattern)
       /\ UNCHANGED <<storageVars, managerVars, shutdownVars, ltVars, evalCall, search,
                   utilVars>>
  \/ StCleanup
       /\ UNCHANGED <<storageVars, managerVars, shutdownVars, ltVars, evalCall, search,
                   utilVars>>
  \/ \E backup \in StBackups, merge \in BOOLEAN : StRestore(backup, merge)
       /\ UNCHANGED <<storageVars, managerVars, shutdownVars, ltVars, evalCall, search,
                   utilVars>>
  \/ StReload
       /\ UNCHANGED <<storageVars, managerVars, shutdownVars, ltVars, evalCall, search,
                   utilVars>>

(***************************************************************************)
(* The specifications.                                                     *)
(***************************************************************************)
(***************************************************************************)
(* matchKeys (nlp/keywords.js). A content is the sequence of its words; a   *)
(* key is a word.                                                           *)
(***************************************************************************)
MaxMatchMessages == 2
MaxDepth == 2

\* array.slice(start): from index start (counted from the end when negative)
\* to the end.
Slice(array, start) ==
  LET from == IF start < 0 THEN Max(Len(array) + start, 0)
              ELSE Min(start, Len(array))
  IN SubSeq(array, from + 1, Len(array))

\* content.match(new RegExp(`\\b${key}\\b`, 'ugi')): the key is a word of the
\* content, whatever the case of the letters.
MatchesKey(content, key) ==
  \E i \in 1..Len(content) : ToLowerCase(content[i]) = ToLowerCase(key)

\* baseMatchKeys(content, keys): the number of the keys that match.
BaseMatchKeys(content, keys) ==
  IF content = <<>> \/ keys = <<>> THEN 0
  ELSE Len(SelectSeq(keys, LAMBDA key : MatchesKey(content, key)))

\* matchKeys(messages, keys, scope, depth).
MatchKeys(messages, keys, scope, depth) ==
  IF messages = <<>> THEN 0
  ELSE LET recentMessages == Slice(messages, 0 - depth)
           filteredMessages ==
             IF scope # "any"
             THEN SelectSeq(recentMessages, LAMBDA msg : msg.role = scope)
             ELSE recentMessages
       IN Sum([i \in 1..Len(filteredMessages) |->
                 IF filteredMessages[i].content # <<>>
                 THEN BaseMatchKeys(filteredMessages[i].content, keys) ELSE 0])

\* The arguments of the matchKeys calls of the model.
RECURSIVE MatchMessages(_)
MatchMessages(n) ==
  IF n = 0 THEN {<<>>}
  ELSE MatchMessages(n - 1) \cup
       {Append(ms, m) : ms \in {x \in MatchMessages(n - 1) : Len(x) = n - 1},
                        m \in [role : {"user", "assistant"},
                               content : {<<>>, <<"cat">>, <<"Cat", "dog">>}]}

MatchKeyArgs == {<<"cat">>, <<"dog", "cat">>, <<"fish">>}
MatchScopes == {"any", "user", "assistant"}

NotMatched == [messages |-> <<>>, keys |-> <<>>, scope |-> "any", depth |-> 0,
               output |-> 0, calls |-> 0]

\* A call of matchKeys, as match_keys of the trigger sandbox makes it.
MatchCall(messages, keys, scope, depth) ==
  matched' = [messages |-> messages, keys |-> keys, scope |-> scope,
              depth |-> depth,
              output |-> MatchKeys(messages, keys, scope, depth), calls |-> 1]

NextMatch ==
  /\ matched.calls = 0
  /\ \E messages \in MatchMessages(MaxMatchMessages), keys \in MatchKeyArgs,
        scope \in MatchScopes, depth \in 0..MaxDepth :
       MatchCall(messages, keys, scope, depth)
  /\ UNCHANGED <<storageVars, managerVars, shutdownVars, ltVars, evalCall, search,
                 stVars, extraction, lru, durable, limiter>>

(***************************************************************************)
(* The short-term tool calls over the manager cache and the store          *)
(* (index.js getShortTermManager, tools/short-term-tools.js, storage.js):   *)
(* a memory is the number of the add that made it, a manager the set of    *)
(* the memories it holds.                                                  *)
(***************************************************************************)
MaxDurCalls == 3

StPath == "short-term-memory.json"

\* loadShortTermMemories() of conversation 'default': what fs.readFile finds
\* in the file, the write buffer left aside; the other conversation has no file.
LoadShortTermMemories(conv) ==
  IF conv = "default" /\ file[StPath] # 0 THEN durable.contents[file[StPath]]
  ELSE {}

\* createServer() has made and cached the manager of conversation 'default'.
DurableInit ==
  durable = [cache |-> <<[key |-> "default", value |-> 1, time |-> 0]>>,
             heap |-> <<{}>>, now |-> 0,
             contents |-> [n \in SaveIds |-> {}],
             acked |-> {}, calls |-> 0,
             last |-> [tool |-> "", conv |-> "", seen |-> {}, loaded |-> FALSE]]

\* getShortTermManager(conversationId): the cached manager, or a new one that
\* loads the file and is cached.
GetShortTermManager(conv) ==
  LET r == LRUGet(durable.cache, conv, durable.now, CacheMaxAge)
      obj == Len(durable.heap) + 1
  IN IF r.value # Undefined
     THEN [cache |-> r.cache, manager |-> r.value, heap |-> durable.heap,
           loaded |-> FALSE]
     ELSE [cache |-> LRUSet(r.cache, conv, obj, durable.now, CacheMaxSize),
           manager |-> obj,
           heap |-> Append(durable.heap, LoadShortTermMemories(conv)),
           loaded |-> TRUE]

\* add_short_term_memory for conversation 'default': addMemory on the manager,
\* saveShortTermMemories(getMemories()), success.
DurAdd ==
  /\ durable.calls < MaxDurCalls
  /\ LET m == GetShortTermManager("default")
         id == Cardinality(durable.acked) + 1
         mems == m.heap[m.manager] \cup {id}
     IN /\ SaveDelayed(StPath)
        /\ durable' = [durable EXCEPT
              !.cache = m.cache,
              !.heap = [m.heap EXCEPT ![m.manager] = mems],
              !.contents = [@ EXCEPT ![nextSave] = mems],
              !.acked = @ \cup {id},
              !.calls = @ + 1,
              !.last = [tool |-> "add", conv |-> "default", seen |-> mems,
                        loaded |-> m.loaded]]

\* get_memory_stats for a conversation: the manager of the call and the
\* memories it holds.
DurStats(conv) ==
  /\ durable.calls < MaxDurCalls
  /\ LET m == GetShortTermManager(conv)
     IN durable' = [durable EXCEPT
          !.cache = m.cache, !.heap = m.heap, !.calls = @ + 1,
          !.last = [tool |-> "stats", conv |-> conv, seen |-> m.heap[m.manager],
                    loaded |-> m.loaded]]

\* Time passes.
DurTick ==
  /\ durable.now < MaxTime
  /\ durable' = [durable EXCEPT !.now = @ + 1]

NextDurable ==
  \/ DurAdd
       /\ UNCHANGED <<managerVars, shutdownVars, ltVars, evalCall, search, stVars,
                      extraction, lru, matched, limiter>>
  \/ (\E conv \in ConvIds : DurStats(conv))
       /\ UNCHANGED <<storageVars, managerVars, shutdownVars, ltVars, evalCall,
                      search, stVars, extraction, lru, matched, limiter>>
  \/ DurTick
       /\ UNCHANGED <<storageVars, managerVars, shutdownVars, ltVars, evalCall,
                      search, stVars, extraction, lru, matched, limiter>>
  \/ (\E t \in SaveIds : TimerFire(t))
       /\ UNCHANGED <<managerVars, shutdownVars, ltVars, engineVars>>
  \/ WriteStep(MaxFailures)
       /\ UNCHANGED <<managerVars, shutdownVars, ltVars, engineVars>>

(***************************************************************************)
(* RateLimiter (security/rate-limiter.js): the request timestamps, the     *)
(* violation counts and the blocked ids of each conversation, under a      *)
(* clock in ticks.  allowedAt and sinceUnblock are history: the times of   *)
(* the allowed calls of an id that lie in the window of its latest call,   *)
(* over all calls and over the calls after its last unblock.               *)
(***************************************************************************)
MaxRequests == 2
WindowMs == 2
MaxLimiterTime == 2
MaxLimiterCalls == 8

\* The violations after which an id is blocked for good.
MaxViolations == 5

\* ts lies in the window of windowMs that ends at t.
InWindow(ts, t) == ts <= t /\ t - ts < WindowMs

WindowOf(times, t) == SelectSeq(times, LAMBDA ts : InWindow(ts, t))

LimiterInit ==
  limiter = [requests |-> [id \in ConvIds |-> <<>>],
             blocked |-> {},
             violations |-> [id \in ConvIds |-> 0],
             now |-> 0,
             calls |-> 0,
             allowedAt |-> [id \in ConvIds |-> <<>>],
             sinceUnblock |-> [id \in ConvIds |-> <<>>],
             unblocked |-> {},
             last |-> [op |-> "none", id |-> "default", allowed |-> FALSE,
                       remaining |-> 0, at |-> 0, afterUnblock |-> FALSE]]

\* recordViolation(conversationId)
RecordViolation(l, id) ==
  LET violations == l.violations[id] + 1
  IN [l EXCEPT !.violations[id] = violations,
               !.blocked = IF violations >= MaxViolations THEN @ \cup {id} ELSE @]

\* checkLimit(conversationId) that denies only above maxRequests.
CheckLimitLate(l, id) ==
  IF id \in l.blocked
  THEN [limiter |-> l, allowed |-> FALSE, remaining |-> 0]
  ELSE LET validRequests ==
             SelectSeq(l.requests[id], LAMBDA ts : l.now - ts < WindowMs)
       IN IF Len(validRequests) > MaxRequests
          THEN [limiter |-> RecordViolation(l, id), allowed |-> FALSE,
                remaining |-> 0]
          ELSE [limiter |-> [l EXCEPT !.requests[id] = Append(validRequests, l.now)],
                allowed |-> TRUE,
                remaining |-> MaxRequests - (Len(validRequests) + 1)]

\* checkLimit(conversationId): the limiter after the call and the result.
CheckLimit(l, id) ==
  IF id \in l.blocked
  THEN [limiter |-> l, allowed |-> FALSE, remaining |-> 0]
  ELSE LET validRequests ==
             SelectSeq(l.requests[id], LAMBDA ts : l.now - ts < WindowMs)
       IN IF Len(validRequests) >= MaxRequests
          THEN [limiter |-> RecordViolation(l, id), allowed |-> FALSE,
                remaining |-> 0]
          ELSE [limiter |-> [l EXCEPT !.requests[id] = Append(validRequests, l.now)],
                allowed |-> TRUE,
                remaining |-> MaxRequests - (Len(validRequests) + 1)]

\* cleanup(): the expired timestamps go; an id left with none loses its key,
\* which reads as the empty list.
LimiterCleanup(l) ==
  [l EXCEPT !.requests =
     [id \in ConvIds |-> SelectSeq(l.requests[id], LAMBDA ts : l.now - ts < WindowMs)]]

\* unblock(conversationId)
Unblock(l, id) ==
  [l EXCEPT !.blocked = @ \ {id}, !.violations[id] = 0, !.requests[id] = <<>>]

\* A checkLimit call of the server.
CheckLimitCall(id) ==
  /\ limiter.calls < MaxLimiterCalls
  /\ LET r == CheckLimit(limiter, id)
         t == limiter.now
         seen(times) == IF r.allowed THEN Append(WindowOf(times, t), t)
                        ELSE WindowOf(times, t)
     IN limiter' = [r.limiter EXCEPT
          !.calls = @ + 1,
          !.allowedAt[id] = seen(@),
          !.sinceUnblock[id] = seen(@),
          !.unblocked = @ \ {id},
          !.last = [op |-> "checkLimit", id |-> id, allowed |-> r.allowed,
                    remaining |-> r.remaining, at |-> t,
                    afterUnblock |-> id \in limiter.unblocked]]

\* An unblock call of the operator.
UnblockCall(id) ==
  /\ limiter.calls < MaxLimiterCalls
  /\ limiter' = [Unblock(limiter, id) EXCEPT
       !.calls = @ + 1,
       !.sinceUnblock[id] = <<>>,
       !.unblocked = @ \cup {id},
       !.last = [op |-> "unblock", id |-> id, allowed |-> FALSE, remaining |-> 0,
                 at |-> limiter.now, afterUnblock |-> FALSE]]

\* The setInterval callback of the constructor.
CleanupFires ==
  /\ limiter' = LimiterCleanup(limiter)

\* Time passes.
LimiterTick ==
  /\ limiter.now < MaxLimiterTime
  /\ limiter' = [limiter EXCEPT !.now = @ + 1]

NextLimiter ==
  \/ (\E id \in ConvIds : CheckLimitCall(id))
       /\ UNCHANGED <<storageVars, managerVars, shutdownVars, ltVars, evalCall,
                      search, stVars, extraction, lru, matched, durable>>
  \/ (\E id \in ConvIds : UnblockCall(id))
       /\ UNCHANGED <<storageVars, managerVars, shutdownVars, ltVars, evalCall,
                      search, stVars, extraction, lru, matched, durable>>
  \/ CleanupFires
       /\ UNCHANGED <<storageVars, managerVars, shutdownVars, ltVars, evalCall,
                      search, stVars, extraction, lru, matched, durable>>
  \/ LimiterTick
       /\ UNCHANGED <<storageVars, managerVars, shutdownVars, ltVars, evalCall,
                      search, stVars, extraction, lru, matched, durable>>

UtilInit ==
  extraction = NotExtracted /\ LruInit /\ matched = NotMatched /\ DurableInit
    /\ LimiterInit

Init ==
  StorageInit /\ ManagerInit /\ ShutdownInit /\ LongTermInit /\ EngineInit
    /\ ShortTermInit /\ UtilInit

SpecDelayed == Init /\ [][NextDelayed]_vars
SpecFlush == Init /\ [][NextFlush]_vars
SpecStorage == Init /\ [][NextStorage]_vars
SpecManagers == Init /\ [][NextManagers]_vars
SpecShutdown == Init /\ [][NextShutdown]_vars
SpecLongTerm == Init /\ [][NextLongTerm]_vars
SpecEvaluate == Init /\ [][NextEvaluate]_vars
SpecActivate == Init /\ [][NextActivate]_vars

SpecShortTerm == Init /\ [][NextShortTerm]_vars
SpecOptimizer == Init /\ [][NextOptimizer]_vars
SpecExtract == Init /\ [][NextExtract]_vars
SpecLru == Init /\ [][NextLru]_vars
SpecMatch == Init /\ [][NextMatch]_vars
SpecDurable == Init /\ [][NextDurable]_vars
SpecLimiter == Init /\ [][NextLimiter]_vars

\* Every fs operation completes and every backoff timer fires.
SpecRetry ==
  /\ Init /\ [][NextRetry]_vars
  /\ WF_vars(WriteStep((MAX_RETRIES + 1) * MaxSaves) /\ UNCHANGED <<managerVars, shutdownVars, ltVars, engineVars>>)
Spec == SpecStorage

(***************************************************************************)
(* The properties of the persistent store.                                 *)
(***************************************************************************)
Transient == {"EBUSY", "EAGAIN"}

\* No timer is armed, no timer callback is running and no write is in flight.
Quiescent ==
  /\ \A t \in SaveIds : timer[t].state \notin {"armed", "running"}
  /\ \A w \in writes : ~InFlight(w)

WritesInFlight(p) == {w \in writes : w.path = p /\ InFlight(w)}

\* C1: last-write-wins coalescing. With only delayed saves, timer firings and
\* write completions, and no write failing, once every timer has fired and every
\* write has completed each file holds the data of the most recent saveJsonFile
\* call for its path.
C1_LastWriteWins ==
  (Quiescent /\ failures = 0) =>
     \A p \in Paths : lastSave[p] # 0 => file[p] = lastSave[p]

\* C2: when flushAllWrites returns with no write having failed, the write buffer
\* is empty and every file holds the data of the most recent save made for its
\* path before the flush was called (unless a newer save was made meanwhile).
C2_FlushDrains ==
  [][(flushDone' = flushDone + 1 /\ failures' = 0) =>
       /\ \A p \in Paths : writeCache'[p] = 0
       /\ \A p \in Paths :
            (flushSnap'[p] # 0 /\ lastSave'[p] = flushSnap'[p]) =>
               file'[p] = flushSnap'[p]]_vars

\* C3: for each path at most one write is in progress at a time, and the data
\* written to the file follows the order of the saveJsonFile calls: a write never
\* replaces the data of a newer save by the data of an older one.
C3_WritesOrdered ==
  /\ [](\A p \in Paths : Cardinality(WritesInFlight(p)) <= 1)
  /\ [][\A p \in Paths : file'[p] >= file[p]]_vars

\* C5: a write that has failed for good (thrown by saveJsonFileWithRetry) is
\* surfaced to the caller of the save: the promise of the saveJsonFile call that
\* supplied the data is rejected.
C5_FailureSurfaced ==
  \A w \in writes : w.phase = "thrown" => saveResult[w.data] = "rejected"

\* The waits of a saveJsonFileWithRetry call that has backed off k times.
ExpectedWaits(k) == SubSeq(<<100, 200, 400>>, 1, IF k > 3 THEN 3 ELSE k)

C6_Bounded ==
  \A w \in writes :
     /\ w.retryCount <= 3
     /\ w.waits = ExpectedWaits(IF w.phase = "backoff" THEN w.retryCount + 1
                                ELSE w.retryCount)
     /\ w.phase = "backoff" => w.err \in Transient
     /\ (w.phase = "thrown" /\ w.err \in Transient) =>
           (w.retryCount = 3 /\ w.waits = <<100, 200, 400>>)

\* C6: saveJsonFileWithRetry always terminates. A write that keeps failing with
\* EBUSY or EAGAIN is retried at most 3 times (4 attempts), after waits of 100,
\* 200 and 400 ms, and then throws; a failure with another code throws at once,
\* with no wait and no retry.
C6_RetryTerminates ==
  /\ []C6_Bounded
  /\ [][\A w \in writes : \A v \in writes' :
          (w.phase = "writing" /\ v.phase = "thrown" /\ v.err \notin Transient
           /\ v.kind = w.kind /\ v.ref = w.ref /\ w \notin writes')
          => (v.retryCount = w.retryCount /\ v.waits = w.waits)]_vars
  /\ \A n \in SaveIds :
        (\E w \in writes : w.ref = n /\ InFlight(w))
           ~> ~(\E w \in writes : w.ref = n /\ InFlight(w))

\* A write has thrown after three retries of a transient failure.
C6_Witness ==
  \E w \in writes : w.phase = "thrown" /\ w.err = "EBUSY" /\ w.retryCount = 3

(***************************************************************************)
(* The properties of the manager cache and of shutdown.                    *)
(***************************************************************************)
\* C4: at most one engine instance of a kind is in use for a conversation id: two
\* tool calls for the same id and kind hold the same manager object, as long as
\* no cache entry of that id has idled out or been evicted.
C4_OneInstancePerConversation ==
  \A c, d \in CallIds :
     (/\ calls[c].pc = "using" /\ calls[d].pc = "using"
      /\ calls[c].id = calls[d].id /\ calls[c].kind = calls[d].kind
      /\ <<calls[c].kind, calls[c].id>> \notin removed)
     => calls[c].manager = calls[d].manager

\* C7: when gracefulShutdown reaches process exit no write timer is armed, the
\* write buffer is empty and every periodic timer has been stopped.
C7_ShutdownDrains ==
  shutdownPc = "exited" =>
     /\ \A t \in SaveIds : timer[t].state # "armed"
     /\ \A p \in Paths : writeCache[p] = 0
     /\ \A i \in PeriodicTimers : ~intervals[i]

(***************************************************************************)
(* The properties of the long-term memories.                               *)
(***************************************************************************)
\* C8: validation gate. The trigger stored by a successful addMemory or
\* updateMemory call passed testTrigger within that call, whatever trigger was
\* supplied, the empty string included; and a call whose trigger fails the
\* validation leaves the stored memories unchanged.
C8_TriggerValidated ==
  /\ []((lastOp.result = "success" /\ lastOp.stored # Undef) => lastOp.validated)
  /\ [][(ltOps' = ltOps + 1 /\ lastOp'.result = "invalid-trigger")
          => memories' = memories]_vars

\* The positions of the records called name.
Named(mems, name) == {j \in 1..Len(mems) : mems[j].name = name}

\* C9: no two stored long-term memories have the same name, after any sequence
\* and any interleaving of addMemory, updateMemory and deleteMemory calls on a
\* manager that started empty.
C9_NamesUnique ==
  \A i, j \in 1..Len(memories) : memories[i].name = memories[j].name => i = j

\* An addMemory has replaced a record while another record is stored.
C9_Witness ==
  /\ lastOp.op = "add" /\ lastOp.result = "success" /\ lastOp.replaced # "none"
  /\ Len(memories) = 2

\* The step in which the addMemory call of slot s stores its record over one of
\* the same name.
AddReplaces(s) ==
  /\ ltCalls[s].pc = "testing" /\ ltCalls[s].op = "add"
  /\ ltCalls'[s].pc = "idle" /\ lastOp'.result = "success"
  /\ Named(memories, ltCalls[s].name) # {}

\* C10: upsert. An addMemory whose name is already stored replaces the record:
\* afterwards exactly one record has the name, with the prompt, trigger and
\* createdContext of this call, nothing of the earlier record (updatedAt,
\* updatedContext, modalities) is carried over, the other records are kept and
\* the number of stored memories is unchanged.
C10_UpsertReplaces ==
  [][\A s \in LtSlots : AddReplaces(s) =>
       LET a == ltCalls[s]
       IN /\ Len(memories') = Len(memories)
          /\ Cardinality(Named(memories', a.name)) = 1
          /\ \A j \in Named(memories', a.name) :
               /\ memories'[j].prompt = a.prompt
               /\ memories'[j].trigger = a.trigger
               /\ memories'[j].createdContext =
                     (IF a.context = Undef THEN "" ELSE a.context)
               /\ memories'[j].updatedAt = NoDate
               /\ memories'[j].updatedContext = Undef
               /\ memories'[j].modalities = ModalitiesOf(a.modalities)
          /\ \A i \in 1..Len(memories) :
               memories[i].name # a.name =>
                  \E j \in 1..Len(memories') : memories'[j] = memories[i]]_vars

\* An addMemory has replaced a record that an updateMemory had changed.
C10_Witness ==
  lastOp.op = "add" /\ lastOp.result = "success" /\ lastOp.replaced = "updated"

(***************************************************************************)
(* The properties of trigger evaluation and of the search of long-term     *)
(* memories.                                                               *)
(***************************************************************************)
\* What the script of a trigger code does that is a non-empty string.
IsScript(code) == code \notin {Undef, NotAString, ""}

\* C11: evaluateTrigger never throws and returns a boolean for every trigger code
\* and context: false when the code is not a non-empty string, fails to compile,
\* throws at run time or exceeds the timeout, and the truthiness of the script's
\* result otherwise.
C11_EvaluateFailClosed ==
  evalCall.pc = "settled" =>
    /\ evalCall.outcome.status = "returned"
    /\ evalCall.outcome.value =
         (IF ~IsScript(evalCall.code) THEN FALSE
          ELSE LET r == VmRun(evalCall.code, evalCall.ctx)
               IN IF r.kind # "value" \/ r.loops THEN FALSE ELSE ToBoolean(r.value))

Range(seq) == {seq[i] : i \in 1..Len(seq)}

\* The step in which searchAndActivateMemories returns.
SearchReturns == search.pc # "returned" /\ search'.pc = "returned"

\* C12: searchAndActivateMemories always terminates, every evaluation ending
\* within the timeout, having evaluated the trigger of every stored memory,
\* whatever the triggers before it did; and it leaves the stored memories
\* unchanged.
C12_SearchTerminates ==
  /\ [](search.pc # "blocked")
  /\ [][SearchReturns => Names(memories') \subseteq Range(search'.evaluated)]_vars
  /\ [][search' # search => memories' = memories]_vars

\* The result of the returning search is exact for this.memories as it is now.
SearchResultExact ==
  LET act == search'.activated
      rnd == search'.random
      truthy == {m \in Range(memories') : EvaluateTrigger(m.trigger, search'.ctx).value}
  IN /\ Range(act) = truthy
     /\ Cardinality(Range(act)) = Len(act)
     /\ Len(rnd) = Min(2, Cardinality(Range(memories') \ Range(act)))
     /\ Cardinality(Range(rnd)) = Len(rnd)
     /\ Range(rnd) \subseteq Range(memories') \ Range(act)

\* C13: searchAndActivateMemories returns as activated exactly the stored
\* memories whose trigger evaluates truthy against the context, and as random
\* min(2, number of stored memories not activated) distinct stored memories, none
\* of them activated.
C13_ActivatedAndRandom == [][SearchReturns => SearchResultExact]_vars

\* C13, amended: the same, for a search during which no other call changed the
\* stored memories.
C13_UndisturbedSearch ==
  [][(SearchReturns /\ search'.undisturbed) => SearchResultExact]_vars

\* An undisturbed search of three memories has returned one activated memory and
\* the two others as random.
C13_Witness ==
  /\ search.pc = "returned" /\ search.undisturbed
  /\ Len(search.snapshot) = 3 /\ Len(search.activated) = 1 /\ Len(search.random) = 2

\* A long-term call returns in this step without having awaited.
ReturnsAtOnce(op) ==
  ltOps' = ltOps + 1 /\ lastOp'.op = op /\ ltCalls' = ltCalls

\* C14: updateMemory and deleteMemory on a name that is not stored do not throw:
\* updateMemory returns a structured failure and deleteMemory false, and the
\* stored memories are left as they are; deleteMemory returns true exactly when
\* a memory of that name was stored, and then removes it and nothing else.
C14_NotFoundIsStructured ==
  /\ [][(ReturnsAtOnce("update") /\ Named(memories, lastOp'.name) = {})
          => (lastOp'.result = "not-found" /\ memories' = memories)]_vars
  /\ [][ReturnsAtOnce("delete") =>
          LET existed == Named(memories, lastOp'.name) # {}
          IN /\ lastOp'.result = (IF existed THEN "true" ELSE "false")
             /\ ~existed => memories' = memories
             /\ Named(memories', lastOp'.name) = {}
             /\ Len(memories') = Len(memories) - (IF existed THEN 1 ELSE 0)
             /\ \A i \in 1..Len(memories) :
                  memories[i].name # lastOp'.name =>
                     \E j \in 1..Len(memories') : memories'[j] = memories[i]]_vars

\* updateMemory of a name that is not stored has failed on a store that holds
\* another memory.
C14_Witness ==
  /\ lastOp.op = "update" /\ lastOp.result = "not-found"
  /\ Len(memories) > 0 /\ Named(memories, lastOp.name) = {}

(***************************************************************************)
(* The properties of the short-term memory engine.                         *)
(***************************************************************************)
\* C15: after any sequence of loadMemories, addMemory, searchRelevantMemories,
\* deleteMemories and cleanup calls, every stored memory has a score of at most
\* 100.
C15_ScoreAtMost100 ==
  \A i \in 1..Len(stMemories) : stMemories[i].score <= MAX_SCORE

\* A short-term call of the given name returns in this step.
StStep(op) == stOps' = stOps + 1 /\ stLast'.op = op

\* The indices of the items of a result list.
Indices(items) == {items[k].index : k \in 1..Len(items)}

\* The number of occurrences of a memory in a store.
Count(mems, m) == Cardinality({i \in 1..Len(mems) : mems[i] = m})

\* C16: a search raises the score of each topRelevant memory to min(old + 5, 100)
\* and of each nextRelevant memory to min(old + 2, 100), changes nothing else of
\* the store and adds or removes no memory; addMemory, deleteMemories and
\* cleanup leave every memory that remains as it was, score included.
C16_ReinforcementFrame ==
  [][ /\ StStep("searchRelevantMemories") =>
           /\ Len(stMemories') = Len(stMemories)
           /\ \A i \in 1..Len(stMemories) :
                stMemories'[i] =
                  [stMemories[i] EXCEPT !.score =
                     IF i \in Indices(stLast'.result.topRelevant)
                     THEN Min(@ + 5, 100)
                     ELSE IF i \in Indices(stLast'.result.nextRelevant)
                     THEN Min(@ + 2, 100)
                     ELSE @]
      /\ StStep("addMemory") =>
           /\ Len(stMemories') >= Len(stMemories)
           /\ \A i \in 1..Len(stMemories) : stMemories'[i] = stMemories[i]
      /\ StStep("deleteMemories") \/ StStep("cleanup") =>
           \A i \in 1..Len(stMemories') :
             Count(stMemories', stMemories'[i]) <= Count(stMemories, stMemories'[i])
    ]_vars

\* A search has returned two topRelevant items, one of them raised to the cap
\* from a lower score, a nextRelevant item and a random flashback.
C16_Witness ==
  /\ stLast.op = "searchRelevantMemories"
  /\ stLast.result.query.keywords # <<>>
  /\ Len(stLast.result.topRelevant) = 2
  /\ Len(stLast.result.nextRelevant) = 1
  /\ Len(stLast.result.randomFlashback) >= 1
  /\ \E k \in 1..2 :
       /\ stMemories[stLast.result.topRelevant[k].index].score = 100
       /\ stLast.result.topRelevant[k].relevance < 1000 * 105

\* The last call was a search; its result is stLast.result.
Searched == stLast.op = "searchRelevantMemories"

\* The items of the two relevant lists, and of the three lists, of the result.
Relevant == stLast.result.topRelevant \o stLast.result.nextRelevant

Returned == Relevant \o stLast.result.randomFlashback

\* The time_stamp of the memory is a time.
Dated(m) == m.time_stamp # -1

\* The distance in time of two memories whose time_stamps are times.
Apart(m1, m2) ==
  IF m1.time_stamp >= m2.time_stamp THEN m1.time_stamp - m2.time_stamp
  ELSE m2.time_stamp - m1.time_stamp

\* The two memories have times, less than d apart.
CloserThan(m1, m2, d) == Dated(m1) /\ Dated(m2) /\ Apart(m1, m2) < d

\* The memory has a time, less than d before the time of the search.
YoungerThan(m, d) == Dated(m) /\ StNow - m.time_stamp < d

\* The stored memories that are in none of the three lists.
NotReturned == (1..Len(stMemories)) \ Indices(Returned)

C18_NoRecentSameConversation ==
  Searched =>
    \A k \in 1..Len(Returned) :
      ~(/\ Returned[k].memory.conversation_id = stLast.result.query.conv
        /\ YoungerThan(Returned[k].memory, 20 * 60))

\* A search has returned a memory and has left out a relevant one of its own
\* conversation, less than 20 minutes old and 10 minutes or more from every
\* returned one; and one of its own conversation that is 20 minutes old is
\* returned.
C18_Witness ==
  /\ Searched
  /\ \E k \in 1..Len(Returned) :
       /\ Returned[k].memory.conversation_id = stLast.result.query.conv
       /\ StNow - Returned[k].memory.time_stamp = 20 * 60
  /\ \E i \in NotReturned :
       /\ stMemories[i].conversation_id = stLast.result.query.conv
       /\ YoungerThan(stMemories[i], 20 * 60)
       /\ StNow - stMemories[i].time_stamp >= 0
       /\ CalculateRelevance(stMemories[i], stLast.result.query.keywords, StNow) >= 5000
       /\ \A k \in 1..Len(Returned) :
            ~CloserThan(stMemories[i], Returned[k].memory, 10 * 60)

\* C19: a search returns at most 2 topRelevant, 1 nextRelevant and 2
\* randomFlashback items, no stored memory more than once over the three lists,
\* and a nextRelevant item only when topRelevant holds 2.
C19_ResultShape ==
  Searched =>
    /\ Len(stLast.result.topRelevant) <= 2
    /\ Len(stLast.result.nextRelevant) <= 1
    /\ Len(stLast.result.randomFlashback) <= 2
    /\ \A j, k \in 1..Len(Returned) :
         /\ Returned[k].index \in 1..Len(stMemories)
         /\ Returned[k].memory = stMemories[Returned[k].index]
         /\ j # k => Returned[j].index # Returned[k].index
    /\ stLast.result.nextRelevant # <<>> => Len(stLast.result.topRelevant) = 2

\* A search has filled the three lists and has left out a memory that passes
\* both time filters against everything returned.
C19_Witness ==
  /\ Searched
  /\ Len(stLast.result.topRelevant) = 2
  /\ Len(stLast.result.nextRelevant) = 1
  /\ Len(stLast.result.randomFlashback) = 2
  /\ \E i \in NotReturned :
       /\ ~TooRecent(stMemories[i], stLast.result.query.conv)
       /\ ~TooClose(stMemories[i], Returned)

\* The relevance the search computed for the stored memory i: the memories out
\* of the two relevant lists have the score they had.
RelevanceOf(i) == CalculateRelevance(stMemories[i], stLast.result.query.keywords, StNow)

\* The item is ranked above the stored memory i in the sorted candidates.
RankedAbove(item, i) ==
  \/ item.relevance > RelevanceOf(i)
  \/ item.relevance = RelevanceOf(i) /\ item.index < i

\* C20: the topRelevant and nextRelevant items have a relevance of 5 or more and
\* are in non-increasing order of relevance, top before next; a stored memory of
\* relevance 5 or more that is in neither list while a less relevant one is, is of
\* the conversation of the search and less than 20 minutes old, or less than 10
\* minutes from a selected memory ranked above it.
C20_GreedyByRelevance ==
  Searched =>
    /\ \A k \in 1..Len(Relevant) : Relevant[k].relevance >= 1000 * 5
    /\ \A j, k \in 1..Len(Relevant) :
         j < k => Relevant[j].relevance >= Relevant[k].relevance
    /\ \A i \in (1..Len(stMemories)) \ Indices(Relevant) :
         (/\ RelevanceOf(i) >= 1000 * 5
          /\ \E k \in 1..Len(Relevant) : Relevant[k].relevance < RelevanceOf(i))
         => \/ /\ stMemories[i].conversation_id = stLast.result.query.conv
               /\ YoungerThan(stMemories[i], 20 * 60)
            \/ \E k \in 1..Len(Relevant) :
                 /\ RankedAbove(Relevant[k], i)
                 /\ CloserThan(stMemories[i], Relevant[k].memory, 10 * 60)

\* A search has filled the two relevant lists past two more relevant memories:
\* one of its own conversation and too recent, one too close to a selected
\* memory ranked above it.
C20_Witness ==
  /\ Searched
  /\ Len(stLast.result.topRelevant) = 2
  /\ Len(stLast.result.nextRelevant) = 1
  /\ \E i, j \in (1..Len(stMemories)) \ Indices(Relevant) :
       /\ RelevanceOf(i) > Relevant[3].relevance
       /\ TooRecent(stMemories[i], stLast.result.query.conv)
       /\ ~TooClose(stMemories[i], Relevant)
       /\ RelevanceOf(j) > Relevant[3].relevance
       /\ ~TooRecent(stMemories[j], stLast.result.query.conv)
       /\ \E k \in 1..3 : /\ RankedAbove(Relevant[k], j)
                          /\ CloserThan(stMemories[j], Relevant[k].memory, 10 * 60)

\* The relevance cleanup computes for a memory: no keywords, the time of the call.
CleanupRelevance(m) == CalculateRelevance(m, <<>>, StNow)

\* The memory passes: its age is under one year and its relevance -5 or more.
Passes(m) ==
  /\ YoungerThan(m, 365 * 24 * 60 * 60)
  /\ CleanupRelevance(m) >= 1000 * (-5)

\* The memory passes, with the age test as "is not older than one year".
PassesUpToOneYear(m) ==
  /\ ~(Dated(m) /\ StNow - m.time_stamp > 365 * 24 * 60 * 60)
  /\ CleanupRelevance(m) >= 1000 * (-5)

\* The number of memories of a store that satisfy the test.
HowMany(mems, Test(_)) == Cardinality({i \in 1..Len(mems) : Test(mems[i])})

\* The retention floor of a cleanup step, for the given notion of passing.
RetentionFloor(Test(_)) ==
  StStep("cleanup") =>
    LET N == Len(stMemories)
        P == HowMany(stMemories, Test)
        old == {stMemories[i] : i \in 1..N}
    IN /\ Len(stMemories') = IF P >= MinRetained THEN P ELSE Min(N, MinRetained)
       /\ \A m \in old : Test(m) => Count(stMemories', m) = Count(stMemories, m)
       /\ \A m \in old : Count(stMemories', m) <= Count(stMemories, m)
       /\ \A kept, gone \in old :
            (/\ ~Test(kept) /\ Count(stMemories', kept) > 0
             /\ ~Test(gone) /\ Count(stMemories', gone) < Count(stMemories, gone))
            => CleanupRelevance(kept) >= CleanupRelevance(gone)
       /\ Len(stMemories') <= N
       /\ stLast'.result = N - Len(stMemories')

\* C21: with P of the N stored memories passing (age under one year, relevance of
\* -5 or more) and the floor F (MinRetained here), cleanup leaves exactly P
\* memories if P >= F and min(N, F) otherwise, removes no passing memory, keeps
\* no failing memory less relevant than a failing one it removes, and returns N
\* minus the new count.
C21_RetentionFloor == [][RetentionFloor(Passes)]_vars

\* The retention floor with the memories that are not older than one year, one
\* that is exactly a year old included, passing the age test.
C21_FloorUpToOneYear == [][RetentionFloor(PassesUpToOneYear)]_vars

\* A cleanup has removed a memory and has kept, to reach the floor, a memory that
\* does not pass.
C21_Witness ==
  /\ stLast.op = "cleanup"
  /\ stLast.result > 0
  /\ Len(stMemories) = MinRetained
  /\ \E i \in 1..Len(stMemories) : ~PassesUpToOneYear(stMemories[i])

\* C22: cleanup runs at most once per 24 hours on a manager: it runs only when
\* more than 24 hours have passed since the last cleanup, or since the
\* construction of the manager.
C22_CleanupOncePerDay ==
  [][StStep("cleanup") => StNow - lastCleanupTime > 24 * 60 * 60]_vars

\* C23: after a successful addMemory the store holds exactly one more record,
\* which has score 0, the conversation id of the call, the rendered transcript
\* as its text, and a timestamp that is not earlier than the time of the call.
C23_AddedRecord ==
  [][ (StStep("addMemory") /\ stLast'.result = TRUE) =>
        /\ Len(stMemories') = Len(stMemories) + 1
        /\ SubSeq(stMemories', 1, Len(stMemories)) = stMemories
        /\ LET m == stMemories'[Len(stMemories')]
           IN /\ m.score = 0
              /\ m.conversation_id = stLast'.args.conv
              /\ m.text = CreateContextSnapshot(stLast'.args.messages)
              /\ Dated(m)
              /\ m.time_stamp >= StNow
    ]_vars

\* C24: addMemory returns false and leaves the store as it was when there are
\* no messages or when every message content is empty or white space; it
\* returns true only when it has appended a record.
C24_BlankIsRefused ==
  [][ StStep("addMemory") =>
        /\ (\A k \in 1..Len(stLast'.args.messages) :
              Blank(stLast'.args.messages[k].content))
             => stLast'.result = FALSE /\ stMemories' = stMemories
        /\ stLast'.result = TRUE => Len(stMemories') = Len(stMemories) + 1
        /\ stLast'.result \in BOOLEAN
    ]_vars

\* The text matches the pattern: it includes the string, or a test of the
\* regular expression from its initial state succeeds.
Matches(text, pattern) ==
  IF pattern.isRegExp THEN RegExpTest(pattern, text, 0).result
  ELSE Includes(text, pattern.source)

\* C25: after deleteMemories(pattern), for a string or a regular expression with
\* any flags, no remaining memory's text matches the pattern, the memories whose
\* text does not match are all there, unchanged and in their order, and the
\* return value is the number of memories removed.
C25_DeleteMatching ==
  [][ StStep("deleteMemories") =>
        /\ \A i \in 1..Len(stMemories') :
             ~Matches(stMemories'[i].text, stLast'.args)
        /\ stMemories' =
             SelectSeq(stMemories, LAMBDA m : ~Matches(m.text, stLast'.args))
        /\ stLast'.result = Len(stMemories) - Len(stMemories')
    ]_vars

\* The entries loadMemories keeps when Test holds of the entries to keep: the
\* store has these entries in their order, each with its text, its
\* conversation and its score (0 when it has none), and with its time when
\* the time parses.
Loaded(Test(_)) ==
  StStep("loadMemories") =>
    LET raw == stLast'.args
        kept == IF raw.isArray THEN SelectSeq(raw.entries, Test) ELSE <<>>
    IN /\ Len(stMemories') = Len(kept)
       /\ \A i \in 1..Len(kept) :
            /\ stMemories'[i].text = kept[i].text
            /\ stMemories'[i].conversation_id = kept[i].conversation_id
            /\ stMemories'[i].score =
                 (IF kept[i].score = None THEN 0 ELSE kept[i].score[1])
            /\ ParsesAsDate(kept[i].time_stamp)
                 => stMemories'[i].time_stamp = kept[i].time_stamp.value
            /\ ~ParsesAsDate(kept[i].time_stamp)
                 => stMemories'[i].time_stamp = StNow

\* An object with a text that is not blank.
HasText(mem) == mem.isObject /\ ~Blank(mem.text)

\* An object with a text that is not blank and a time that is not unparsable.
HasTextAndTime(mem) == HasText(mem) /\ mem.time_stamp.kind # "unparsable"

\* C26: loadMemories does not throw, and the store it leaves holds exactly the
\* entries of the input that are objects with a text that is not blank and a
\* timestamp that parses; what is not an object, has no text or has an
\* unparsable timestamp is dropped, and an input that is not an array leaves an
\* empty store.
C26_LoadDropsMalformed == [][Loaded(HasTextAndTime)]_vars

\* C26, amended: the store holds exactly the entries that are objects with a
\* text that is not blank; an entry whose timestamp is missing or unparsable is
\* kept and dated with the current time.
C26_LoadKeepsUndated == [][Loaded(HasText)]_vars

\* A load of an array with an entry that is not an object, one with a blank
\* text and one with an unparsable time has returned.
C26_Witness ==
  /\ stLast.op = "loadMemories"
  /\ stLast.args.isArray
  /\ \E i, j, k \in 1..Len(stLast.args.entries) :
       /\ ~stLast.args.entries[i].isObject
       /\ stLast.args.entries[j].isObject /\ Blank(stLast.args.entries[j].text)
       /\ stLast.args.entries[k].time_stamp.kind = "unparsable"
       /\ HasText(stLast.args.entries[k])
  /\ Len(stMemories) = 2


\* Two words are the same word when trimmed and compared without regard to
\* case.
SameWord(a, b) == ToLowerCase(Trim(a)) = ToLowerCase(Trim(b))

\* The greatest of a set of numbers that is not empty.
Greatest(ns) == CHOOSE n \in ns : \A m \in ns : m <= n

\* The result of the deduplicateKeywords call, when Counts holds of the input
\* entries that count and WeightOf gives the weight an entry counts with: the
\* result has an entry for a word exactly when an entry of the input that
\* counts has that word, and only one; its weight is the greatest of that
\* word's entries; the weights do not increase along the result; every word is
\* a string; and deduplicating the result gives the result.
Deduplicated(Counts(_), WeightOf(_)) ==
  optimized.calls > 0 =>
    LET input == optimized.input
        output == optimized.output
        counted == {i \in 1..Len(input) : Counts(input[i])}
    IN /\ \A i \in counted :
            \E j \in 1..Len(output) : SameWord(output[j].word, input[i].word)
       /\ \A j \in 1..Len(output) :
            /\ IsString(output[j].word)
            /\ \E i \in counted : SameWord(output[j].word, input[i].word)
            /\ output[j].weight =
                 Greatest({WeightOf(input[i]) :
                             i \in {c \in counted :
                                      SameWord(input[c].word, output[j].word)}})
       /\ \A j, k \in 1..Len(output) :
            j < k => /\ ~SameWord(output[j].word, output[k].word)
                     /\ output[j].weight >= output[k].weight
       /\ DeduplicateKeywords(output) = output

\* C29: deduplicateKeywords returns exactly one entry for each distinct word of
\* its input, words compared without regard to case after trimming, with the
\* greatest weight of the input entries of that word, in an order of
\* non-increasing weight; the entries whose word is not a string are dropped;
\* applying it twice gives what applying it once gives.
C29_OnePerWord ==
  Deduplicated(LAMBDA kw : IsString(kw.word), LAMBDA kw : kw.weight)

\* C29, amended: the entries whose word is not a string or is blank are
\* dropped, and a weight that is not a finite number counts as 1.
C29_OnePerNonBlankWord ==
  Deduplicated(LAMBDA kw : IsString(kw.word) /\ Trim(kw.word) # "",
               LAMBDA kw : IF IsFinite(kw.weight) THEN kw.weight ELSE 1)

\* A call has merged two spellings of a word, the second with the greater
\* weight, and has dropped an entry whose word is not a string.
C29_Witness ==
  /\ optimized.calls > 0
  /\ Len(optimized.input) = 3
  /\ Len(optimized.output) = 1
  /\ optimized.input[1] = Keyword("cat", 1)
  /\ optimized.input[2] = Keyword("Cat", 3)
  /\ ~IsString(optimized.input[3].word)
  /\ optimized.output[1] = Keyword("cat", 3)


\* C27: every record that saveShortTermMemories hands to the disk writer has its
\* time in the one field timestamp, as an ISO string, and no time_stamp or
\* timeStamp field; it has no attachments field and no key that starts with
\* '_'; and no two of its keywords are the same word ignoring case.
C27_SanitizedRecords ==
  stFile.written =>
    \A i \in 1..Len(stFile.data.entries) :
      LET record == stFile.data.entries[i]
      IN /\ "timestamp" \in record.keys
         /\ record.time_stamp.kind = "parsable"
         /\ record.keys \cap {"time_stamp", "timeStamp", "attachments"} = {}
         /\ \A key \in record.keys : ~StartsWithUnderscore(key)
         /\ \A j, k \in 1..Len(record.keywords) :
              j # k => ToLowerCase(record.keywords[j].word)
                         # ToLowerCase(record.keywords[k].word)


\* The keywords of a list, as a set.
KeywordSet(keywords) == {keywords[k] : k \in 1..Len(keywords)}

\* The document a save of the store writes.
DocumentOf(mems) ==
  [i \in 1..Len(mems) |-> PrepareShortTermMemoryForStorage(MemoryObject(mems[i]))]

\* C28: when a store has been saved and a new manager loads the file, the new
\* store has as many records as the saved one, in the same order, each with the
\* text, the score, the conversation id and the time of the original and with
\* the deduplicated keywords of the original; and a save of the new store writes
\* the document that the save of the original wrote.
C28_RoundTrip ==
  [][ (StStep("reload") /\ stFile.written /\ stFile.ofStore) =>
        /\ Len(stMemories') = Len(stMemories)
        /\ \A i \in 1..Len(stMemories) :
             i <= Len(stMemories') =>
               /\ stMemories'[i].text = stMemories[i].text
               /\ stMemories'[i].score = stMemories[i].score
               /\ stMemories'[i].conversation_id = stMemories[i].conversation_id
               /\ stMemories'[i].time_stamp = stMemories[i].time_stamp
               /\ KeywordSet(stMemories'[i].keywords)
                    = KeywordSet(DeduplicateKeywords(stMemories[i].keywords))
        /\ DocumentOf(stMemories') = DocumentOf(stMemories)
    ]_vars


\* C30: the relevance scoring compares keywords without regard to case: a
\* keyword of the query and a keyword of the memory that differ only in case
\* count as the same word and add the weight of the one and of the other to
\* the keyword match score; so the relevance of a memory for a query is the
\* same before and after the deduplication of its keywords by a save.
C30_CaseInsensitiveMatch ==
  \A i \in 1..Len(stMemories), q \in StQueries :
    LET mem == stMemories[i]
        saved == [mem EXCEPT !.keywords = DeduplicateKeywords(mem.keywords)]
    IN /\ \A c \in 1..Len(q.keywords), k \in 1..Len(mem.keywords) :
            ToLowerCase(q.keywords[c].word) = ToLowerCase(mem.keywords[k].word)
              => KeywordMatchScore(mem.keywords, <<q.keywords[c]>>)
                   >= q.keywords[c].weight + mem.keywords[k].weight
       /\ CalculateRelevance(mem, q.keywords, StNow)
            = CalculateRelevance(saved, q.keywords, StNow)


\* The sum of the weights the messages give a word, with the given multiplier
\* of each role; the messages without content give none.
WordWeight(messages, word, Factor(_)) ==
  Sum([m \in 1..Len(messages) |->
         IF Blank(messages[m].content) THEN 0
         ELSE Sum([k \in 1..Len(messages[m].keywords) |->
                     IF messages[m].keywords[k].word = word
                     THEN messages[m].keywords[k].weight * Factor(messages[m].role)
                     ELSE 0])])

\* The result of a call without roleWeights when Factor is the multiplier of
\* a role: every word returned has the sum of its weights, which is 0.8 or
\* more; the weights do not increase along the result; no word is returned
\* twice; a word of 0.8 or more that is not returned is not heavier than one
\* that is; and the result is as long as the limit allows.
ExtractedWith(Factor(_)) ==
  (extraction.calls > 0 /\ extraction.weights = NoWeights) =>
    LET messages == extraction.messages
        output == extraction.output
        heavy == {w \in {"cat", "dog", "owl"} :
                    WordWeight(messages, w, Factor) >= KEYWORD_MIN_WEIGHT}
        returned == {output[j].word : j \in 1..Len(output)}
    IN /\ \A j \in 1..Len(output) :
            /\ output[j].weight = WordWeight(messages, output[j].word, Factor)
            /\ output[j].weight >= KEYWORD_MIN_WEIGHT
       /\ \A j, k \in 1..Len(output) :
            j < k => /\ output[j].weight >= output[k].weight
                     /\ output[j].word # output[k].word
       /\ returned \subseteq heavy
       /\ Len(output) = Min(Cardinality(heavy), TopKeywords)
       /\ \A w \in heavy \ returned, j \in 1..Len(output) :
            WordWeight(messages, w, Factor) <= output[j].weight

\* C31: without roleWeights, extractMessageKeywords multiplies the weight of
\* each keyword by 2.7 for a user message, 2.0 for an assistant message and 1.0
\* for a system message, sums the weights of a word over the messages, drops
\* the words whose sum is below 0.8 and returns at most 72 words (TopKeywords
\* here) by non-increasing weight.
C31_DefaultRoleFactors ==
  ExtractedWith(LAMBDA role : DocumentedMultiplier(NoWeights, role))

\* The keys of the cache before and after the call made last, and the entry a
\* set of a new key has evicted.
LruBefore == LRUKeys(lru.last.before)
LruAfter == LRUKeys(lru.cache)
LruEvicted == LruBefore \ LruAfter

\* The time for which key j had not been accessed when the last call was made.
LruIdle(j) == lru.last.at - lru.last.accessed[j].at

\* C32: the cache never holds more than maxSize entries, whatever calls of get,
\* set, has, delete, cleanExpired and clear are made; a set of a key the cache
\* holds evicts nothing, and a set of a new key into a full cache evicts exactly
\* one entry.
C32_NeverOverMaxSize ==
  /\ Len(lru.cache) <= LruMaxSize
  /\ Cardinality(LruAfter) = Len(lru.cache)
  /\ lru.last.op = "set" =>
        IF lru.last.key \in LruBefore THEN LruAfter = LruBefore
        ELSE IF Cardinality(LruBefore) >= LruMaxSize
             THEN /\ Cardinality(LruEvicted) = 1
                  /\ LruAfter = (LruBefore \ LruEvicted) \cup {lru.last.key}
             ELSE LruAfter = LruBefore \cup {lru.last.key}

C32_Witness ==
  /\ lru.last.op = "set"
  /\ lru.last.key \notin LruBefore
  /\ Cardinality(LruBefore) = LruMaxSize
  /\ Len(lru.cache) = LruMaxSize

\* C33: the entry a set evicts is one whose last access (the latest get that
\* returned it, or set of it) is the oldest: no key that stays in the cache was
\* last accessed before the evicted key was.
C33_EvictsLeastRecentlyUsed ==
  lru.last.op = "set" =>
    \A e \in LruEvicted : \A j \in LruBefore \cap LruAfter :
      lru.last.accessed[e].seq < lru.last.accessed[j].seq

\* C34: get and has report no entry that has been idle for more than maxAge:
\* they delete it and return undefined and false; cleanExpired deletes exactly
\* the entries idle for more than maxAge and returns their number.
C34_IdleEntriesNotReported ==
  /\ (lru.last.op \in {"get", "has"} /\ lru.last.key \in LruBefore
        /\ LruIdle(lru.last.key) > LruMaxAge) =>
       /\ lru.last.result = (IF lru.last.op = "get" THEN Undefined ELSE FALSE)
       /\ lru.last.key \notin LruAfter
  /\ lru.last.op = "cleanExpired" =>
       /\ LruAfter = {j \in LruBefore : ~(LruIdle(j) > LruMaxAge)}
       /\ lru.last.result = Cardinality(LruEvicted)

C34_Witness ==
  /\ lru.last.op = "cleanExpired"
  /\ lru.last.result = 1
  /\ \E j \in LruAfter : LruIdle(j) = LruMaxAge

\* The messages of the call that are among its last depth messages and whose
\* role is the scope, and the number of the keys that occur in a content.
InScope(i) ==
  /\ i > Len(matched.messages) - matched.depth
  /\ matched.scope = "any" \/ matched.messages[i].role = matched.scope

KeysIn(content) ==
  Cardinality({k \in 1..Len(matched.keys) :
                 \E i \in 1..Len(content) :
                   ToLowerCase(content[i]) = ToLowerCase(matched.keys[k])})

\* C35: match_keys returns the sum, over the messages among the last depth
\* messages whose role is the scope (any role for 'any'), of the number of the
\* keywords that occur in the content; earlier messages are never counted, for
\* every depth from 0 on.
C35_LastDepthOnly ==
  matched.calls = 1 =>
    matched.output =
      Sum([i \in 1..Len(matched.messages) |->
             IF InScope(i) THEN KeysIn(matched.messages[i].content) ELSE 0])

\* The step in which an updateMemory call returns success.
UpdateReturns ==
  ltOps' = ltOps + 1 /\ lastOp'.op = "update" /\ lastOp'.result = "success"

\* The step in which the updateMemory call of slot s returns success after its
\* await of the validation of the trigger.
UpdateResumes(s) ==
  /\ UpdateReturns
  /\ ltCalls[s].pc = "testing" /\ ltCalls[s].op = "update" /\ ltCalls'[s].pc = "idle"

\* C37: updateMemory(name, updates) changes only the record called name, and of
\* it only the fields that updates gives and updatedAt: the name and createdAt
\* stay; so it is in every interleaving in which an addMemory or a deleteMemory
\* of the same manager runs while updateMemory awaits the validation of the
\* trigger.
C37_UpdateOnlyNamed ==
  [][/\ UpdateReturns =>
          /\ Len(memories') = Len(memories)
          /\ \A i \in 1..Len(memories) :
                IF memories[i].name = lastOp'.name
                THEN /\ memories'[i].name = memories[i].name
                     /\ memories'[i].createdAt = memories[i].createdAt
                     /\ memories'[i].createdContext = memories[i].createdContext
                ELSE memories'[i] = memories[i]
     /\ \A s \in LtSlots : UpdateResumes(s) =>
          \A i \in Named(memories, ltCalls[s].name) :
            /\ ltCalls[s].prompt = Undef => memories'[i].prompt = memories[i].prompt
            /\ ltCalls[s].context = Undef =>
                  memories'[i].updatedContext = memories[i].updatedContext
            /\ ltCalls[s].modalities = None =>
                  memories'[i].modalities = memories[i].modalities]_vars

\* C38: a memory whose add_short_term_memory returned success is held by the
\* manager of every later tool call of the conversation (the model makes no
\* delete, cleanup or restore), also when the manager has left the manager
\* cache and a new one has loaded the file; no write has failed.
C38_AcknowledgedAddsStay ==
  (durable.last.conv = "default" /\ failures = 0) =>
     durable.acked \subseteq durable.last.seen

\* C39: after restore_memories has returned success in overwrite mode (merge
\* false), the short-term manager of the conversation holds exactly the records
\* of the backup: as many memories as loadMemories keeps of the backup's array,
\* with their texts and conversation ids, in the backup's order.
C39_RestoreOverwrites ==
  (stLast.op = "restore" /\ stLast.result = TRUE /\ ~stLast.args.merge) =>
     LET kept == LoadMemories(Array(stLast.args.backup))
     IN /\ Len(stMemories) = Len(kept)
        /\ \A i \in 1..Len(kept) :
              /\ stMemories[i].text = kept[i].text
              /\ stMemories[i].conversation_id = kept[i].conversation_id

\* The allowed calls of the id of the last call that lie in the window ending
\* at that call, over all its calls and over those after its last unblock.
AllowedInWindow == Len(WindowOf(limiter.allowedAt[limiter.last.id], limiter.last.at))
AllowedSinceUnblock ==
  Len(WindowOf(limiter.sinceUnblock[limiter.last.id], limiter.last.at))

\* C40 as stated: for every conversation id the window of windowMs that ends
\* at an allowed checkLimit call holds at most maxRequests allowed calls and
\* the call reports remaining = maxRequests minus that number, a denied call
\* reports remaining = 0, and the first checkLimit(id) after unblock(id) is
\* allowed.
C40_AtMostMaxPerWindow ==
  limiter.last.op = "checkLimit" =>
    /\ limiter.last.allowed =>
         /\ AllowedInWindow <= MaxRequests
         /\ limiter.last.remaining = MaxRequests - AllowedInWindow
    /\ ~limiter.last.allowed => limiter.last.remaining = 0
    /\ limiter.last.afterUnblock => limiter.last.allowed

\* C40, amended: the bound and the remaining count are over the allowed calls
\* made after the last unblock(id): the window of windowMs that ends at an
\* allowed checkLimit call holds at most maxRequests allowed calls made since
\* the id was last unblocked, and the call reports remaining = maxRequests
\* minus that number; a denied call reports remaining = 0; the first
\* checkLimit(id) after unblock(id) is allowed.
C40_AtMostMaxSinceUnblock ==
  limiter.last.op = "checkLimit" =>
    /\ limiter.last.allowed =>
         /\ AllowedSinceUnblock <= MaxRequests
         /\ AllowedSinceUnblock >= 1
         /\ limiter.last.remaining = MaxRequests - AllowedSinceUnblock
    /\ ~limiter.last.allowed => limiter.last.remaining = 0
    /\ limiter.last.afterUnblock => limiter.last.allowed

\* A checkLimit call is allowed right after unblock(id) in a window that
\* already holds maxRequests allowed calls of the id.
C40_Witness ==
  /\ limiter.last.op = "checkLimit"
  /\ limiter.last.afterUnblock
  /\ limiter.last.allowed
  /\ AllowedInWindow > MaxRequests
  /\ limiter.last.remaining = MaxRequests - 1

====
